---- MODULE Spec2Model ----
(***************************************************************************)
(* A model of the STUDENTS-COMPANION data analysis backend:                *)
(*   - cleaning/audit.py        AuditLogger                                *)
(*   - ai/interpreter.py        AIInterpreter (DeepSeek -> Gemini -> text) *)
(*   - analysis/statistics.py   StatisticalAnalyzer result records         *)
(*   - utils/file_handlers.py   DataStorage                                *)
(*   - api/routes.py            the request handlers                       *)
(* Each component has its own specification over the shared variables;     *)
(* the variables of the other components stay at their initial values.     *)
(***************************************************************************)
EXTENDS Integers, Sequences, FiniteSets, TLC

VARIABLES
    \* ---- AuditLogger (cleaning/audit.py) ----
    entries,          \* self.entries
    auditOp,          \* the method called last
    auditRet,         \* what that call returned
    \* ---- AIInterpreter (ai/interpreter.py) ----
    deepseek_api_key, \* TRUE iff self.deepseek_api_key is a non-empty string
    gemini_api_key,   \* TRUE iff self.gemini_api_key is a non-empty string
    aiPc,             \* position of the running interpret() call
    usePrompt,        \* interpret()'s use_system_prompt argument
    requests,         \* the HTTP requests the running call has sent, in order
    dsResult,         \* what _call_deepseek returned to interpret()
    gmResult,         \* what _call_gemini returned to interpret()
    gmIdx,            \* _call_gemini's position in its list of models
    aiResult,         \* what interpret() returned
    \* ---- StatisticalAnalyzer (analysis/statistics.py) ----
    df,               \* the data frame handed to the analyzer
    statOp,           \* the test operation called last
    statArgs,         \* the column arguments of that call
    libOut,           \* what the statistics library handed back to that call
    result,           \* the record it returned
    raised,           \* TRUE iff an exception left the operation
    apaTable,         \* what the table builder made of that record
    \* ---- DataStorage and the request handlers (api/routes.py) ----
    datasets,         \* data_storage.datasets
    counter,          \* data_storage.counter
    audit_loggers,    \* routes.audit_loggers: dataset id -> entries
    response,         \* the response of the request handled last
    imported,         \* history: dataset id -> the frame as imported
    written,          \* history: dataset id -> frames the clean requests stored
    lastCall,         \* history: the locals of the request handled last
    cleaning,         \* the clean requests in flight: position and locals of each
    emptyArrayRaises  \* TRUE iff the installed numpy raises on bool(empty array)

auditVars == <<entries, auditOp, auditRet>>
aiVars    == <<deepseek_api_key, gemini_api_key, aiPc, usePrompt, requests,
               dsResult, gmResult, gmIdx, aiResult>>
statVars  == <<df, statOp, statArgs, libOut, result, raised, apaTable>>
apiVars   == <<datasets, counter, audit_loggers, response, imported, written,
               lastCall, cleaning, emptyArrayRaises>>
vars      == <<auditVars, aiVars, statVars, apiVars>>

\* Python's None, and "no call made yet"
None == "None"
NoCall == "-"

(***************************************************************************)
(* Bounds of the model                                                     *)
(***************************************************************************)
MaxEntries == 4   \* longest audit trail explored
MaxRows == 3      \* most rows of a data frame handed to the analyzer
MaxDatasets == 2  \* most import requests explored
MaxLogged == 3    \* most audit entries the request handlers write, all datasets
MaxStored == 4    \* most DataStorage.store calls explored

(***************************************************************************)
(* AuditLogger                                                             *)
(***************************************************************************)
AuditActions == {"import", "remove_duplicates", "analysis"}

NewEntryNumberedByLength(es, action, user) ==
    [action |-> action, user |-> user, entry_number |-> Len(es)]
\* AuditLogger.log: the entry built from the arguments and the trail's length
\* (the wall-clock timestamp is not modelled)
NewEntry(es, action, user) ==
    [action |-> action, user |-> user, entry_number |-> Len(es) + 1]

\* AuditLogger.log: self.entries.append(entry)
LogEntries(es, action, user) == Append(es, NewEntry(es, action, user))

\* AuditLogger.get_log
GetLog(es) == [total_entries |-> Len(es), entries |-> es]

\* AuditLogger.clear
ClearEntries(es) == <<>>

UndoLastEntriesFirst(es) == IF es # <<>> THEN Tail(es) ELSE es
\* AuditLogger.undo_last: self.entries.pop() when the trail is not empty
UndoLastEntries(es) == IF es # <<>> THEN SubSeq(es, 1, Len(es) - 1) ELSE es

\* AuditLogger.undo_last: the value returned
UndoLastReturn(es) == IF es # <<>> THEN es[Len(es)] ELSE None

InitAudit ==
    /\ entries = <<>>
    /\ auditOp = NoCall
    /\ auditRet = None

Log(action, user) ==
    /\ Len(entries) < MaxEntries
    /\ entries' = LogEntries(entries, action, user)
    /\ auditOp' = "log"
    /\ auditRet' = NewEntry(entries, action, user)

GetLogCall ==
    /\ auditOp' = "get_log"
    /\ auditRet' = GetLog(entries)
    /\ UNCHANGED entries

Clear ==
    /\ entries' = ClearEntries(entries)
    /\ auditOp' = "clear"
    /\ auditRet' = None

UndoLast ==
    /\ entries' = UndoLastEntries(entries)
    /\ auditOp' = "undo_last"
    /\ auditRet' = UndoLastReturn(entries)

LogAny == \E a \in AuditActions : Log(a, "system")

NextAudit ==
    \/ LogAny /\ UNCHANGED <<aiVars, statVars, apiVars>>
    \/ GetLogCall /\ UNCHANGED <<aiVars, statVars, apiVars>>
    \/ Clear /\ UNCHANGED <<aiVars, statVars, apiVars>>
    \/ UndoLast /\ UNCHANGED <<aiVars, statVars, apiVars>>

(***************************************************************************)
(* AIInterpreter                                                           *)
(***************************************************************************)
\* What one HTTP request can come back with: status 200 with text, status 200
\* with an empty text, status 200 with a body of another shape, another status,
\* or requests.post raising (timeout after 60 s, connection error).
Responses == {"ok_text", "ok_empty", "ok_malformed", "non200", "exception"}

GeminiModels == <<"gemini-3-flash-preview", "gemini-2.5-flash">>

FallbackText == "Interpretation (AI temporarily unavailable)"

NoAIResult == [model |-> NoCall]

\* Python's truth value of an Optional[str]
Truthy(text) == text \notin {None, ""}

\* interpret(): the messages list holds the system prompt and the user prompt
Messages(usp) == IF usp THEN 2 ELSE 1

DeepseekSendsAlways(key) == TRUE
\* _call_deepseek: "if not self.deepseek_api_key: return None" before any request
DeepseekSends(key) == key

\* _call_gemini: "if not self.gemini_api_key: return None" before any request
GeminiSends(key) == key

\* _call_deepseek: the request it posts
DeepseekRequest(usp) ==
    [to |-> "deepseek", model |-> "deepseek-reasoner", messages |-> Messages(usp)]

\* _call_gemini: the request it posts for the model at position i
GeminiRequest(i) == [to |-> "gemini", model |-> GeminiModels[i], messages |-> 1]

\* _call_deepseek: the try block's exceptions all end in "except Exception"
DeepseekRaises(resp) == FALSE

\* _call_deepseek: the value returned for a response
DeepseekReturn(resp) ==
    CASE resp = "ok_text"  -> "text"
      [] resp = "ok_empty" -> ""
      [] OTHER             -> None

\* _call_gemini: a 200 response with a well-formed body returns from the loop
GeminiReturns(resp) == resp \in {"ok_text", "ok_empty"}

\* _call_gemini: the text returned for such a response
GeminiReturn(resp) == IF resp = "ok_text" THEN "text" ELSE ""

GeminiRetrySame(i) == i
\* _call_gemini: "for model in models" moves on to the next model
GeminiNextIdx(i) == i + 1

InterpretGeminiFirst(ds) == TRUE
\* interpret(): "if result: return {...deepseek...}", else fall back to Gemini
InterpretTriesGemini(ds) == ~Truthy(ds)

\* interpret(): the record returned when DeepSeek gave text
DeepseekSuccess(ds) ==
    [success |-> TRUE, interpretation |-> ds, model |-> "deepseek-reasoner"]

\* interpret(): the record returned when Gemini gave text
GeminiSuccess(gm) ==
    [success |-> TRUE, interpretation |-> gm, model |-> "gemini-flash"]

\* interpret(): the record returned when both providers failed
FallbackResult ==
    [success |-> FALSE, interpretation |-> FallbackText,
     model |-> "fallback-template",
     error |-> "Both AI services unavailable. Using template response."]


InitAI ==
    /\ deepseek_api_key \in BOOLEAN
    /\ gemini_api_key \in BOOLEAN
    /\ aiPc = "idle"
    /\ usePrompt = TRUE
    /\ requests = <<>>
    /\ dsResult = None
    /\ gmResult = None
    /\ gmIdx = 1
    /\ aiResult = NoAIResult

\* The variables of the interpreter at rest, for the other specifications
IdleAI ==
    /\ InitAI
    /\ deepseek_api_key = FALSE
    /\ gemini_api_key = FALSE

\* a caller enters interpret(prompt, use_system_prompt)
Interpret(usp) ==
    /\ aiPc \in {"idle", "done"}
    /\ aiPc' = "deepseek"
    /\ usePrompt' = usp
    /\ requests' = <<>>
    /\ dsResult' = None
    /\ gmResult' = None
    /\ gmIdx' = 1
    /\ aiResult' = NoAIResult
    /\ UNCHANGED <<deepseek_api_key, gemini_api_key>>

InterpretAny == \E usp \in BOOLEAN : Interpret(usp)

\* interpret() calls _call_deepseek, which posts its request or returns None
CallDeepseek ==
    /\ aiPc = "deepseek"
    /\ IF DeepseekSends(deepseek_api_key)
       THEN /\ requests' = Append(requests, DeepseekRequest(usePrompt))
            /\ aiPc' = "deepseek_wait"
            /\ UNCHANGED dsResult
       ELSE /\ dsResult' = None
            /\ aiPc' = "deepseek_returned"
            /\ UNCHANGED requests
    /\ UNCHANGED <<deepseek_api_key, gemini_api_key, usePrompt, gmResult, gmIdx,
                   aiResult>>

\* the DeepSeek request comes back (or times out) and _call_deepseek returns
DeepseekResponse(resp) ==
    /\ aiPc = "deepseek_wait"
    /\ IF DeepseekRaises(resp)
       THEN aiPc' = "raised" /\ UNCHANGED dsResult
       ELSE aiPc' = "deepseek_returned" /\ dsResult' = DeepseekReturn(resp)
    /\ UNCHANGED <<deepseek_api_key, gemini_api_key, usePrompt, requests,
                   gmResult, gmIdx, aiResult>>

DeepseekResponseAny == \E resp \in Responses : DeepseekResponse(resp)

\* interpret() looks at DeepSeek's result: return it, or fall back to Gemini
AfterDeepseek ==
    /\ aiPc = "deepseek_returned"
    /\ IF InterpretTriesGemini(dsResult)
       THEN aiPc' = "gemini" /\ UNCHANGED aiResult
       ELSE aiPc' = "done" /\ aiResult' = DeepseekSuccess(dsResult)
    /\ UNCHANGED <<deepseek_api_key, gemini_api_key, usePrompt, requests,
                   dsResult, gmResult, gmIdx>>

\* _call_gemini: the key check, then one turn of "for model in models"
CallGemini ==
    /\ aiPc = "gemini"
    /\ IF GeminiSends(gemini_api_key) /\ gmIdx <= Len(GeminiModels)
       THEN /\ requests' = Append(requests, GeminiRequest(gmIdx))
            /\ aiPc' = "gemini_wait"
            /\ UNCHANGED gmResult
       ELSE /\ gmResult' = None
            /\ aiPc' = "gemini_returned"
            /\ UNCHANGED requests
    /\ UNCHANGED <<deepseek_api_key, gemini_api_key, usePrompt, dsResult, gmIdx,
                   aiResult>>

\* a Gemini request comes back (or times out): return the text, or go on to
\* the next model (the bare "except: continue" and a status other than 200)
GeminiResponse(resp) ==
    /\ aiPc = "gemini_wait"
    /\ IF GeminiReturns(resp)
       THEN /\ gmResult' = GeminiReturn(resp)
            /\ aiPc' = "gemini_returned"
            /\ UNCHANGED gmIdx
       ELSE /\ gmIdx' = GeminiNextIdx(gmIdx)
            /\ aiPc' = "gemini"
            /\ UNCHANGED gmResult
    /\ UNCHANGED <<deepseek_api_key, gemini_api_key, usePrompt, requests,
                   dsResult, aiResult>>

GeminiResponseAny == \E resp \in Responses : GeminiResponse(resp)

\* interpret() looks at Gemini's result: return it, or the template
AfterGemini ==
    /\ aiPc = "gemini_returned"
    /\ aiPc' = "done"
    /\ aiResult' = IF Truthy(gmResult) THEN GeminiSuccess(gmResult)
                   ELSE FallbackResult
    /\ UNCHANGED <<deepseek_api_key, gemini_api_key, usePrompt, requests,
                   dsResult, gmResult, gmIdx>>

\* the steps of a running interpret() call
InterpretStep ==
    \/ CallDeepseek
    \/ DeepseekResponseAny
    \/ AfterDeepseek
    \/ CallGemini
    \/ GeminiResponseAny
    \/ AfterGemini

NextAI ==
    \/ InterpretAny /\ UNCHANGED <<auditVars, statVars, apiVars>>
    \/ CallDeepseek /\ UNCHANGED <<auditVars, statVars, apiVars>>
    \/ DeepseekResponseAny /\ UNCHANGED <<auditVars, statVars, apiVars>>
    \/ AfterDeepseek /\ UNCHANGED <<auditVars, statVars, apiVars>>
    \/ CallGemini /\ UNCHANGED <<auditVars, statVars, apiVars>>
    \/ GeminiResponseAny /\ UNCHANGED <<auditVars, statVars, apiVars>>
    \/ AfterGemini /\ UNCHANGED <<auditVars, statVars, apiVars>>

\* One whole interpret() call as a function of what the providers answer:
\* dsResp is DeepSeek's response, gmResps[i] that of Gemini's i-th model.
CallDeepseekAll(key, dsResp) ==
    IF DeepseekSends(key) THEN DeepseekReturn(dsResp) ELSE None

RECURSIVE GeminiLoop(_, _)
GeminiLoop(i, gmResps) ==
    IF i > Len(GeminiModels) THEN None
    ELSE IF GeminiReturns(gmResps[i]) THEN GeminiReturn(gmResps[i])
    ELSE GeminiLoop(GeminiNextIdx(i), gmResps)

CallGeminiAll(key, gmResps) ==
    IF GeminiSends(key) THEN GeminiLoop(1, gmResps) ELSE None

InterpretAll(dsKey, gmKey, dsResp, gmResps) ==
    LET ds == CallDeepseekAll(dsKey, dsResp) IN
    IF ~InterpretTriesGemini(ds) THEN DeepseekSuccess(ds)
    ELSE LET gm == CallGeminiAll(gmKey, gmResps) IN
         IF Truthy(gm) THEN GeminiSuccess(gm) ELSE FallbackResult

(***************************************************************************)
(* StatisticalAnalyzer                                                     *)
(* A data frame is a sequence of rows with the two columns "g" (a group    *)
(* code) and "y" (a measurement); NaN is a missing cell.  Numbers that the *)
(* statistics library computes (p-values, effect sizes) are fixed-point    *)
(* integers in units of 0.00001, drawn from small sets by the actions.     *)
(***************************************************************************)
NaN == -1
Num == "num"      \* a float the library computed, its value not modelled

GroupValues == {1, 2, 3}
OutcomeValues == {1, 2}
\* the rows of the model: (group code, measurement) with either one missing
Rows ==
    {[g |-> NaN, y |-> 1], [g |-> 1, y |-> 1], [g |-> 1, y |-> 2],
     [g |-> 2, y |-> 1], [g |-> 2, y |-> NaN], [g |-> 3, y |-> 1],
     [g |-> 3, y |-> NaN]}
RowKey(r) == 4 * (r.g + 1) + (r.y + 1)
\* the frames of the model: up to MaxRows rows, listed by group code and
\* measurement (the order of the rows decides only the order of 'groups')
Frames ==
    {f \in UNION {[1..n -> Rows] : n \in 0..MaxRows} :
        \A i \in 1..(Len(f) - 1) : RowKey(f[i]) <= RowKey(f[i + 1])}

\* StatisticalAnalyzer.__init__: alpha=0.05
Alpha == 5000

\* the column names a caller may pass: the two of the frame, and a wrong one;
\* an operation is given two different columns
ColumnArgs == {"g", "y", "zz"}
HasColumn(col) == col \in {"g", "y"}
Cell(row, col) == IF col = "g" THEN row.g ELSE row.y

DropNARowwiseNone(frame, cols) == frame
\* df[[...]].dropna(): the rows with no missing cell in the chosen columns
DropNA(frame, cols) ==
    SelectSeq(frame, LAMBDA r : \A c \in cols : Cell(r, c) # NaN)

\* Series.unique(): the distinct values in order of first appearance
RECURSIVE UniqueFrom(_, _)
UniqueFrom(vals, seen) ==
    IF vals = <<>> THEN seen
    ELSE IF \E i \in 1..Len(seen) : seen[i] = Head(vals)
         THEN UniqueFrom(Tail(vals), seen)
         ELSE UniqueFrom(Tail(vals), Append(seen, Head(vals)))

Column(frame, col) == [i \in 1..Len(frame) |-> Cell(frame[i], col)]
Unique(frame, col) == UniqueFrom(Column(frame, col), <<>>)

\* df_clean[df_clean[group_var] == g][outcome_var]
GroupData(frame, gcol, ycol, g) ==
    Column(SelectSeq(frame, LAMBDA r : Cell(r, gcol) = g), ycol)

\* floor(a * 10^k / c) for a >= 0 and c > 0, by long division
RECURSIVE DecDiv(_, _, _)
DecDiv(a, c, k) ==
    IF k = 0 THEN a \div c
    ELSE (a \div c) * (10 ^ k) + DecDiv((a % c) * 10, c, k - 1)

\* the largest v in lo..hi with v * v <= x
RECURSIVE ISqrtBetween(_, _, _)
ISqrtBetween(x, lo, hi) ==
    IF lo >= hi THEN lo
    ELSE LET mid == (lo + hi + 1) \div 2 IN
         IF mid * mid <= x THEN ISqrtBetween(x, mid, hi)
         ELSE ISqrtBetween(x, lo, mid - 1)

\* np.sqrt of a float given in units of 0.00001, to the same unit
SqrtFixed(x) ==
    IF x = NaN THEN NaN
    ELSE LET x4 == x * 1000
             v4 == ISqrtBetween(x4, 0, 46340)
             rem == x4 - v4 * v4
             t == CHOOSE d \in 0..9 :
                    /\ 20 * v4 * d + d * d <= 100 * rem
                    /\ \A e \in (d + 1)..9 : 20 * v4 * e + e * e > 100 * rem
         IN 10 * v4 + t

\* the sum of a sequence of numbers
RECURSIVE SumSeq(_)
SumSeq(seq) == IF seq = <<>> THEN 0 ELSE Head(seq) + SumSeq(Tail(seq))

\* Python's round(x, 4) of a float given in units of 0.00001 (half to even)
Round4(x) ==
    IF x = NaN THEN NaN
    ELSE LET a == IF x < 0 THEN -x ELSE x
             q == a \div 10
             r == a % 10
             up == r > 5 \/ (r = 5 /\ q % 2 = 1)
             m == (IF up THEN q + 1 ELSE q) * 10
         IN IF x < 0 THEN -m ELSE m

\* Python's "x < y" on floats: every comparison with NaN is False
Less(x, y) == x # NaN /\ y # NaN /\ x < y
GreaterOrEqual(x, y) == x # NaN /\ y # NaN /\ x >= y
Greater(x, y) == x # NaN /\ y # NaN /\ x > y

\* self.effect_size_thresholds, in units of 0.00001
Thresholds(metric) ==
    CASE metric = "cohens_d"    -> [small |-> 20000, medium |-> 50000, large |-> 80000]
      [] metric = "r"           -> [small |-> 10000, medium |-> 30000, large |-> 50000]
      [] metric = "eta_squared" -> [small |-> 1000, medium |-> 6000, large |-> 14000]
      [] metric = "cramers_v"   -> [small |-> 10000, medium |-> 30000, large |-> 50000]
      [] metric = "r_squared"   -> [small |-> 2000, medium |-> 13000, large |-> 26000]

InterpretEffectSizeSigned(value, metric) ==
    LET t == Thresholds(metric)
    IN  IF Less(value, t.small) THEN "negligible"
        ELSE IF Less(value, t.medium) THEN "small"
        ELSE IF Less(value, t.large) THEN "medium"
        ELSE "large"
\* StatisticalAnalyzer._interpret_effect_size
InterpretEffectSize(value, metric) ==
    LET t == Thresholds(metric)
        abs_value == IF value < 0 /\ value # NaN THEN -value ELSE value
    IN  IF Less(abs_value, t.small) THEN "negligible"
        ELSE IF Less(abs_value, t.medium) THEN "small"
        ELSE IF Less(abs_value, t.large) THEN "medium"
        ELSE "large"

\* What the statistics library hands back in one call of a test operation:
\* p the test's p-value, fisher_p the p-value of fisher_exact, levene_p
\* Levene's p-value, es an effect size the library's statistic decides, and
\* fault whether a library call raised (a non-numeric column, a singular
\* matrix, a sample the routine rejects).
PRaws == {NaN, 40, 4996, 5000, 30000}
LevenePs == {NaN, 3000, 5000, 7000, 100000}
EffectRaws == {0, 19996, 90000}
LibCases ==
    {[p |-> x, fisher_p |-> 30000, levene_p |-> 7000, es |-> 90000,
      fault |-> FALSE] : x \in PRaws}
    \cup {[p |-> 30000, fisher_p |-> x, levene_p |-> 7000, es |-> 90000,
           fault |-> FALSE] : x \in PRaws}
    \cup {[p |-> 40, fisher_p |-> 30000, levene_p |-> l, es |-> 90000,
           fault |-> FALSE] : l \in LevenePs}
    \cup {[p |-> 40, fisher_p |-> 30000, levene_p |-> 7000, es |-> e,
           fault |-> FALSE] : e \in EffectRaws}
    \cup {[p |-> 40, fisher_p |-> 30000, levene_p |-> 7000, es |-> 90000,
           fault |-> TRUE]}

OnExceptionPartial(msg) == [error |-> <<msg>>, test_type |-> "partial"]
\* "except Exception as e: return {'error': str(e)}"
OnException(msg) == [error |-> <<msg>>]

\* 'significant': p_value < self.alpha, on the p-value as computed
Significant(p) == Less(p, Alpha)

\* 'n', 'mean', 'std', 'se' of one group
GroupStats(data) == [n |-> Len(data), mean |-> Num, std |-> Num, se |-> Num]

\* 'n', 'median', 'iqr' of one group
RankStats(data) == [n |-> Len(data), median |-> Num, iqr |-> Num]

\* the shapiro block of run_ttest: computed for a group of 3 or more
Normality(data) ==
    IF Len(data) >= 3
    THEN [shapiro_w |-> Num, p_value |-> Num, normal |-> Num]
    ELSE [shapiro_w |-> None, p_value |-> None, normal |-> None]

\* len(df_clean[group_var].unique())
CountGroups(frame, clean, gcol) == Len(Unique(clean, gcol))

\* n * sum((x - mean)^2) of a sample of whole numbers: n * sum(x^2) - sum(x)^2
SumSqDev(data) ==
    Len(data) * SumSeq([i \in 1..Len(data) |-> data[i] * data[i]])
        - SumSeq(data) * SumSeq(data)

\* a float a / b (a of either sign, b > 0) in units of 0.00001
Ratio(a, b) == IF a < 0 THEN -DecDiv(-a, b, 5) ELSE DecDiv(a, b, 5)

\* _cohens_d: (n1-1)*var1 + (n2-1)*var2 over n1 + n2 - 2, as the fraction
\* num / den; Series.var() of fewer than 2 values is NaN
PooledVar(group1, group2) ==
    LET n1 == Len(group1)
        n2 == Len(group2)
    IN  [defined |-> n1 >= 2 /\ n2 >= 2,
         num |-> SumSqDev(group1) * n2 + SumSqDev(group2) * n1,
         den |-> n1 * n2 * (n1 + n2 - 2)]

MeanDiffReversed(group1, group2) ==
    [num |-> SumSeq(group2) * Len(group1) - SumSeq(group1) * Len(group2),
     den |-> Len(group1) * Len(group2)]
\* group1.mean() - group2.mean(), as the fraction num / den
MeanDiff(group1, group2) ==
    [num |-> SumSeq(group1) * Len(group2) - SumSeq(group2) * Len(group1),
     den |-> Len(group1) * Len(group2)]

\* StatisticalAnalyzer._cohens_d
CohensD(group1, group2) ==
    LET pv == PooledVar(group1, group2)
        md == MeanDiff(group1, group2)
        pooled_std == SqrtFixed(Ratio(pv.num, pv.den))
    IN  IF ~pv.defined THEN NaN
        \* "if pooled_std == 0: return 0.0"
        ELSE IF pv.num = 0 THEN 0
        ELSE Ratio(md.num * 100000, md.den * pooled_std)

\* ttest_ind(equal_var=True): the mean difference over
\* sqrt(pooled variance * (1/n1 + 1/n2)), where that is a finite number
PooledT(group1, group2) ==
    LET pv == PooledVar(group1, group2)
        md == MeanDiff(group1, group2)
        n1 == Len(group1)
        n2 == Len(group2)
    IN  IF ~pv.defined \/ pv.num = 0 THEN [finite |-> FALSE, value |-> 0]
        ELSE [finite |-> TRUE,
              value |-> Ratio(md.num * 100000,
                              md.den * SqrtFixed(Ratio(pv.num * (n1 + n2),
                                                       pv.den * n1 * n2)))]

\* group2 is group1 with one number added to every value, not all values alike
ShiftedCopy(group1, group2) ==
    /\ Len(group1) = Len(group2)
    /\ \A i \in 1..Len(group1) : group2[i] - group1[i] = group2[1] - group1[1]
    /\ \E i \in 1..Len(group1) : group1[i] # group1[1]

\* every value of the sample is the same
Constant(data) == \A i \in 1..Len(data) : data[i] = data[1]

\* What is known of the library on the samples of a two-sample test:
\* levene() of two samples with the same deviations from their medians has
\* the statistic 0 and the p-value 1.0, and of two samples without any
\* deviation the statistic 0/0 and the p-value nan; the two-sided p-value of a t statistic
\* with 8 degrees of freedom is below 0.01 from |t| = 3.355 on.
LibraryAllows(group1, group2, lib) ==
    /\ ShiftedCopy(group1, group2) => lib.levene_p = 100000
    /\ (Constant(group1) /\ Constant(group2)) <=> lib.levene_p = NaN
    /\ (/\ Len(group1) + Len(group2) - 2 = 8
        /\ PooledT(group1, group2).finite
        /\ Greater(lib.levene_p, Alpha))
        => LET t == PooledT(group1, group2).value IN
           (t >= 335500 \/ t <= -335500) => Less(lib.p, 1000)

PairedSizesIgnored(group1_data, group2_data) == FALSE
\* run_ttest, paired: "if len(group1_data) != len(group2_data)"
PairedSizesDiffer(group1_data, group2_data) ==
    Len(group1_data) # Len(group2_data)

\* StatisticalAnalyzer.run_ttest
RunTtestRecord(frame, group_var, outcome_var, paired, lib) ==
    IF ~HasColumn(group_var) \/ ~HasColumn(outcome_var)
    THEN OnException("KeyError")
    ELSE
    LET df_clean == DropNA(frame, {group_var, outcome_var})
        groups == Unique(df_clean, group_var)
        k == CountGroups(frame, df_clean, group_var)
    IN  IF k # 2
        THEN IF paired
             THEN [error |-> <<"Paired t-test requires exactly 2 groups">>]
             ELSE [error |-> <<"T-test requires exactly 2 groups, found", k>>]
        ELSE
        LET group1_data == GroupData(df_clean, group_var, outcome_var, groups[1])
            group2_data == GroupData(df_clean, group_var, outcome_var, groups[2])
            equal_var == Greater(lib.levene_p, Alpha)
            cohens_d == CohensD(group1_data, group2_data)
        IN  IF paired /\ PairedSizesDiffer(group1_data, group2_data)
            THEN [error |-> <<"Paired t-test requires equal sample sizes">>]
            ELSE IF lib.fault THEN OnException("exception")
            ELSE
            [test_type |->
                IF paired THEN "Paired Samples t-test"
                ELSE IF ~equal_var THEN "Independent Samples t-test (Welch's)"
                ELSE "Independent Samples t-test",
             test_statistic |->
                \* the statistic of the other tests is not modelled
                IF ~paired /\ equal_var /\ PooledT(group1_data, group2_data).finite
                THEN Round4(PooledT(group1_data, group2_data).value) ELSE Num,
             degrees_of_freedom |-> Len(group1_data) + Len(group2_data) - 2,
             p_value |-> Round4(lib.p),
             significant |-> Significant(lib.p),
             alpha |-> Alpha,
             effect_size |->
                [cohens_d |-> Round4(cohens_d), ci_95 |-> <<Num, Num>>,
                 interpretation |-> InterpretEffectSize(cohens_d, "cohens_d")],
             mean_difference |-> [value |-> Num, ci_95 |-> <<Num, Num>>],
             group_statistics |->
                [g \in {groups[1], groups[2]} |->
                    GroupStats(GroupData(df_clean, group_var, outcome_var, g))],
             assumptions |->
                [normality_group1 |-> Normality(group1_data),
                 normality_group2 |-> Normality(group2_data),
                 equal_variance |->
                    IF paired
                    THEN [levene_stat |-> None, p_value |-> None, equal |-> None]
                    ELSE [levene_stat |-> Num, p_value |-> Round4(lib.levene_p),
                          equal |-> equal_var]],
             variables |->
                [group |-> group_var, outcome |-> outcome_var, groups |-> groups]]

\* StatisticalAnalyzer.run_mannwhitney
RunMannwhitneyRecord(frame, group_var, outcome_var, lib) ==
    IF ~HasColumn(group_var) \/ ~HasColumn(outcome_var)
    THEN OnException("KeyError")
    ELSE
    LET df_clean == DropNA(frame, {group_var, outcome_var})
        groups == Unique(df_clean, group_var)
        k == CountGroups(frame, df_clean, group_var)
    IN  IF k # 2
        THEN [error |-> <<"Mann-Whitney U requires exactly 2 groups, found", k>>]
        ELSE IF lib.fault THEN OnException("exception")
        ELSE
        [test_type |-> "Mann-Whitney U Test",
         test_statistic |-> Num,
         p_value |-> Round4(lib.p),
         significant |-> Significant(lib.p),
         alpha |-> Alpha,
         effect_size |->
            [rank_biserial_r |-> Round4(lib.es),
             interpretation |-> InterpretEffectSize(lib.es, "r")],
         group_statistics |->
            [g \in {groups[1], groups[2]} |->
                RankStats(GroupData(df_clean, group_var, outcome_var, g))],
         variables |->
            [group |-> group_var, outcome |-> outcome_var, groups |-> groups]]

TooFewGroupsTwo(k) == k < 2
\* run_anova, run_kruskal: "if len(groups) < 3"
TooFewGroups(k) == k < 3

\* the range of a sequence
Range(seq) == {seq[i] : i \in 1..Len(seq)}

\* the product of a sequence of numbers
RECURSIVE ProdSeq(_)
ProdSeq(seq) == IF seq = <<>> THEN 1 ELSE Head(seq) * ProdSeq(Tail(seq))

\* run_anova: "eta_squared = ss_between / ss_total if ss_total > 0 else 0",
\* with ss_between = sum(T_g^2 / n_g) - T^2 / N and ss_total = sum(y^2) - T^2 / N
\* for the group sums T_g, the group sizes n_g, the sum T and the size N
EtaSquared(frame, group_var, outcome_var, groups) ==
    LET ys == Column(frame, outcome_var)
        big_n == Len(ys)
        total == SumSeq(ys)
        sizes == [i \in 1..Len(groups) |->
                    Len(GroupData(frame, group_var, outcome_var, groups[i]))]
        all_sizes == ProdSeq(sizes)
        between == SumSeq([i \in 1..Len(groups) |->
                    LET t == SumSeq(GroupData(frame, group_var, outcome_var,
                                              groups[i]))
                    IN  t * t * (all_sizes \div sizes[i])])
    IN  IF SumSqDev(ys) = 0 THEN 0
        ELSE Ratio(big_n * between - total * total * all_sizes,
                   SumSqDev(ys) * all_sizes)

\* StatisticalAnalyzer.run_anova
RunAnovaRecord(frame, group_var, outcome_var, lib) ==
    IF ~HasColumn(group_var) \/ ~HasColumn(outcome_var)
    THEN OnException("KeyError")
    ELSE
    LET df_clean == DropNA(frame, {group_var, outcome_var})
        groups == Unique(df_clean, group_var)
        k == Len(groups)
        n_total == Len(df_clean)
        eta_squared == EtaSquared(df_clean, group_var, outcome_var, groups)
    IN  IF TooFewGroups(k)
        THEN [error |-> <<"ANOVA requires 3 or more groups. Use t-test for 2 groups.">>]
        ELSE IF lib.fault THEN OnException("exception")
        ELSE
        [test_type |-> "One-way ANOVA",
         test_statistic |-> Num,
         degrees_of_freedom |-> [between |-> k - 1, within |-> n_total - k],
         p_value |-> Round4(lib.p),
         significant |-> Significant(lib.p),
         alpha |-> Alpha,
         effect_size |->
            [eta_squared |-> Round4(eta_squared), omega_squared |-> Num,
             interpretation |-> InterpretEffectSize(eta_squared, "eta_squared")],
         group_statistics |->
            [g \in Range(groups) |->
                GroupStats(GroupData(df_clean, group_var, outcome_var, g))],
         posthoc |-> [method |-> "Tukey HSD", comparisons |-> Num],
         assumptions |->
            [homogeneity_of_variance |->
                [levene_stat |-> Num, p_value |-> Round4(lib.levene_p),
                 equal |-> Greater(lib.levene_p, Alpha)]],
         variables |->
            [group |-> group_var, outcome |-> outcome_var, groups |-> groups]]

\* StatisticalAnalyzer.run_kruskal
RunKruskalRecord(frame, group_var, outcome_var, lib) ==
    IF ~HasColumn(group_var) \/ ~HasColumn(outcome_var)
    THEN OnException("KeyError")
    ELSE
    LET df_clean == DropNA(frame, {group_var, outcome_var})
        groups == Unique(df_clean, group_var)
        k == Len(groups)
    IN  IF TooFewGroups(k)
        THEN [error |-> <<"Kruskal-Wallis requires 3 or more groups. Use Mann-Whitney U for 2 groups.">>]
        ELSE IF lib.fault THEN OnException("exception")
        ELSE
        [test_type |-> "Kruskal-Wallis H Test",
         test_statistic |-> Num,
         degrees_of_freedom |-> k - 1,
         p_value |-> Round4(lib.p),
         significant |-> Significant(lib.p),
         alpha |-> Alpha,
         effect_size |->
            [epsilon_squared |-> Round4(lib.es),
             interpretation |-> InterpretEffectSize(lib.es, "eta_squared")],
         group_statistics |->
            [g \in Range(groups) |->
                RankStats(GroupData(df_clean, group_var, outcome_var, g))],
         variables |->
            [group |-> group_var, outcome |-> outcome_var, groups |-> groups]]

\* run_chisquare: "(expected < 5).any()"
ExpectedMin == 5

\* number of rows of the frame whose cell in col is v
CountOf(frame, col, v) == Len(SelectSeq(frame, LAMBDA r : Cell(r, col) = v))

\* run_chisquare: some expected count row_total * col_total / n is below 5
AnyExpectedBelow(frame, var1, var2) ==
    \E v \in Range(Unique(frame, var1)), w \in Range(Unique(frame, var2)) :
        CountOf(frame, var1, v) * CountOf(frame, var2, w) < ExpectedMin * Len(frame)

\* pd.crosstab: the number of rows with v in var1 and w in var2
Observed(frame, var1, var2, v, w) ==
    Len(SelectSeq(frame, LAMBDA r : Cell(r, var1) = v /\ Cell(r, var2) = w))

ChiTermUncorrected(frame, var1, var2, v, w, dof) ==
    LET n == Len(frame)
        rc == CountOf(frame, var1, v) * CountOf(frame, var2, w)
        diff == n * Observed(frame, var1, var2, v, w) - rc
    IN  DecDiv(diff * diff, n * rc, 5)
\* chi2_contingency: the share of one cell in the statistic, (O - E)^2 / E
\* with E = row * col / n; on a table with one degree of freedom each O is
\* first moved by up to 0.5 towards E (the continuity correction, which
\* chi2_contingency applies unless told otherwise)
ChiTerm(frame, var1, var2, v, w, dof) ==
    LET n == Len(frame)
        rc == CountOf(frame, var1, v) * CountOf(frame, var2, w)
        diff == n * Observed(frame, var1, var2, v, w) - rc
        abs_diff == IF diff < 0 THEN -diff ELSE diff
        moved2 == IF 2 * abs_diff > n THEN 2 * abs_diff - n ELSE 0
    IN  IF dof = 1 THEN DecDiv(moved2 * moved2, 4 * n * rc, 5)
        ELSE DecDiv(abs_diff * abs_diff, n * rc, 5)

\* chi2_contingency: the statistic of the table, 0.0 without a degree of freedom
Chi2(frame, var1, var2) ==
    LET rows == Unique(frame, var1)
        cols == Unique(frame, var2)
        dof == (Len(rows) - 1) * (Len(cols) - 1)
    IN  IF dof = 0 THEN 0
        ELSE SumSeq([k \in 1..(Len(rows) * Len(cols)) |->
                ChiTerm(frame, var1, var2, rows[((k - 1) \div Len(cols)) + 1],
                        cols[((k - 1) % Len(cols)) + 1], dof)])

UseFisherAnyShape(use_fisher, nrows, ncols) == use_fisher
\* run_chisquare: "if use_fisher and contingency_table.shape == (2, 2)"
UseFisherExact(use_fisher, nrows, ncols) ==
    use_fisher /\ nrows = 2 /\ ncols = 2

\* run_chisquare: "np.sqrt(chi2 / (n * min_dim)) if min_dim > 0 else 0"
CramersV(chi2, n, min_dim) ==
    IF min_dim > 0 THEN SqrtFixed(chi2 \div (n * min_dim)) ELSE 0

\* fisher_exact: the odds ratio a*d / (b*c) of a 2x2 table is zero when a*d is
FisherOddsRatioZero(frame, var1, var2) ==
    LET rows == Unique(frame, var1)
        cols == Unique(frame, var2)
    IN  Observed(frame, var1, var2, rows[1], cols[1])
            * Observed(frame, var1, var2, rows[2], cols[2]) = 0

\* StatisticalAnalyzer.run_chisquare
RunChisquareRecord(frame, var1, var2, lib) ==
    IF ~HasColumn(var1) \/ ~HasColumn(var2)
    THEN OnException("KeyError")
    ELSE
    LET df_clean == DropNA(frame, {var1, var2})
        nrows == Len(Unique(df_clean, var1))
        ncols == Len(Unique(df_clean, var2))
        chi2 == Chi2(df_clean, var1, var2)
        use_fisher == AnyExpectedBelow(df_clean, var1, var2)
        exact == UseFisherExact(use_fisher, nrows, ncols)
        p_value == IF exact THEN lib.fisher_p ELSE lib.p
        two_by_two == nrows = 2 /\ ncols = 2
        n == Len(df_clean)
        min_dim == IF nrows < ncols THEN nrows - 1 ELSE ncols - 1
        cramers_v == CramersV(chi2, n, min_dim)
    IN  \* chi2_contingency rejects an empty table
        IF df_clean = <<>> \/ lib.fault THEN OnException("exception")
        ELSE
        [test_type |->
            IF exact THEN "Fisher's Exact Test"
            ELSE "Chi-square Test of Independence",
         test_statistic |-> Round4(chi2),
         degrees_of_freedom |-> (nrows - 1) * (ncols - 1),
         p_value |-> Round4(p_value),
         significant |-> Significant(p_value),
         alpha |-> Alpha,
         effect_size |->
            [cramers_v |-> Round4(cramers_v),
             \* "round(phi, 4) if phi else None"
             phi |-> IF two_by_two /\ chi2 # 0 THEN Num ELSE None,
             \* "round(odds_ratio, 4) if odds_ratio else None"
             odds_ratio |->
                IF exact /\ ~FisherOddsRatioZero(df_clean, var1, var2)
                THEN Num ELSE None,
             interpretation |-> InterpretEffectSize(cramers_v, "cramers_v")],
         contingency_table |-> [observed |-> Num, expected |-> Num],
         sample_size |-> n,
         assumptions |->
            [expected_cell_counts |->
                [min_expected |-> Num, cells_below_5 |-> Num,
                 fisher_recommended |-> use_fisher]],
         variables |-> [variable1 |-> var1, variable2 |-> var2]]

\* StatisticalAnalyzer.run_correlation
RunCorrelationRecord(frame, var1, var2, method, lib) ==
    IF ~HasColumn(var1) \/ ~HasColumn(var2)
    THEN OnException("KeyError")
    ELSE
    LET df_clean == DropNA(frame, {var1, var2})
        n == Len(df_clean)
    IN  \* pearsonr and spearmanr reject fewer than 2 points
        IF n < 2 \/ lib.fault THEN OnException("exception")
        ELSE
        [test_type |->
            IF method = "pearson" THEN "Pearson Correlation"
            ELSE "Spearman Correlation",
         correlation_coefficient |-> Round4(lib.es),
         p_value |-> Round4(lib.p),
         significant |-> Significant(lib.p),
         alpha |-> Alpha,
         r_squared |-> Num,
         confidence_interval |-> [ci_95 |-> <<Num, Num>>],
         interpretation |->
            [strength |-> Num,
             direction |-> IF lib.es > 0 THEN "positive" ELSE "negative",
             effect_size |-> InterpretEffectSize(lib.es, "r")],
         sample_size |-> n,
         variables |-> [variable1 |-> var1, variable2 |-> var2]]

AllVarsOutcomeOnly(outcome, predictor) == {outcome}
\* the regressions: "all_vars = [outcome] + predictors"
AllVars(outcome, predictor) == {outcome, predictor}

\* one row of the 'coefficients' list of a linear model
LinearCoefficient(var, lib) ==
    [variable |-> var, B |-> Num, SE |-> Num,
     beta |-> IF var = "const" THEN None ELSE Num,
     t |-> Num, p |-> Round4(lib.p), ci_95 |-> <<Num, Num>>,
     significant |-> Significant(lib.p)]

\* StatisticalAnalyzer.run_linear_regression, predictors a list of one column
RunLinearRegressionRecord(frame, outcome, predictor, lib) ==
    IF ~HasColumn(outcome) \/ ~HasColumn(predictor)
    THEN OnException("KeyError")
    ELSE
    LET df_clean == DropNA(frame, AllVars(outcome, predictor)) IN
        \* sm.OLS rejects an empty sample
        IF df_clean = <<>> \/ lib.fault THEN OnException("exception")
        ELSE
        [test_type |-> "Simple Linear Regression",
         model_summary |->
            [r_squared |-> Round4(lib.es), r_squared_adj |-> Num,
             f_statistic |-> Num, f_pvalue |-> Round4(lib.p),
             significant |-> Significant(lib.p), aic |-> Num, bic |-> Num],
         coefficients |->
            <<LinearCoefficient("const", lib), LinearCoefficient(predictor, lib)>>,
         sample_size |-> Len(df_clean),
         effect_size |->
            [r_squared |-> Round4(lib.es),
             interpretation |-> InterpretEffectSize(lib.es, "r_squared")],
         multicollinearity |-> None,
         assumptions |->
            [normality_of_residuals |->
                [shapiro_w |-> Num, p_value |-> Num, normal |-> Num],
             homoscedasticity |->
                [breusch_pagan_stat |-> Num, p_value |-> Num, homoscedastic |-> Num],
             independence |-> [durbin_watson |-> Num, interpretation |-> Num]],
         variables |-> [outcome |-> outcome, predictors |-> <<predictor>>]]

\* one row of the 'coefficients' list of a logistic model
LogisticCoefficient(var, lib) ==
    [variable |-> var, B |-> Num, SE |-> Num, Wald |-> Num, z |-> Num,
     p |-> Round4(lib.p), OR |-> Num, OR_ci_95 |-> <<Num, Num>>,
     significant |-> Significant(lib.p)]

\* run_logistic_regression: the label of McFadden's pseudo R-squared
PseudoR2Label(r2) ==
    IF r2 > 40000 THEN "excellent" ELSE IF r2 > 20000 THEN "good" ELSE "acceptable"

\* StatisticalAnalyzer.run_logistic_regression, predictors a list of one column
RunLogisticRegressionRecord(frame, outcome, predictor, lib) ==
    IF ~HasColumn(outcome) \/ ~HasColumn(predictor)
    THEN OnException("KeyError")
    ELSE
    LET df_clean == DropNA(frame, AllVars(outcome, predictor))
        unique_vals == Unique(df_clean, outcome)
    IN  IF Len(unique_vals) # 2
        THEN [error |-> <<"Logistic regression requires binary outcome. Found",
                          Len(unique_vals)>>]
        ELSE IF lib.fault THEN OnException("exception")
        ELSE
        [test_type |-> "Binary Logistic Regression",
         model_summary |->
            [pseudo_r_squared |-> Round4(lib.es), log_likelihood |-> Num,
             aic |-> Num, bic |-> Num, llr_pvalue |-> Round4(lib.p),
             significant |-> Significant(lib.p)],
         coefficients |->
            <<LogisticCoefficient("const", lib), LogisticCoefficient(predictor, lib)>>,
         sample_size |-> Len(df_clean),
         classification |-> [accuracy |-> Num, confusion_matrix |-> Num],
         effect_size |->
            [pseudo_r_squared |-> Round4(lib.es),
             interpretation |-> PseudoR2Label(lib.es)],
         variables |-> [outcome |-> outcome, predictors |-> <<predictor>>]]

\* the operations share one shape: every body is a single try block whose
\* "except Exception" returns the error record, so nothing is raised
Escapes(op) == FALSE

NoResult == [test_type |-> NoCall]
NoTable == [markdown |-> NoCall]
NoLib == [p |-> NaN, fisher_p |-> NaN, levene_p |-> NaN, es |-> 0, fault |-> FALSE]

InitStats ==
    /\ df \in Frames
    /\ statOp = NoCall
    /\ statArgs = <<>>
    /\ libOut = NoLib
    /\ result = NoResult
    /\ raised = FALSE
    /\ apaTable = NoTable

IdleStats ==
    /\ df = <<>>
    /\ statOp = NoCall
    /\ statArgs = <<>>
    /\ libOut = NoLib
    /\ result = NoResult
    /\ raised = FALSE
    /\ apaTable = NoTable

Returned(op, args, lib, rec) ==
    /\ statOp' = op
    /\ statArgs' = args
    \* an operation that returns an error has used nothing of the library
    /\ libOut' = IF "error" \in DOMAIN rec THEN NoLib ELSE lib
    /\ raised' = Escapes(op)
    /\ result' = IF Escapes(op) THEN NoResult ELSE rec
    /\ apaTable' = NoTable
    /\ UNCHANGED df

\* the samples of the two groups run_ttest compares, if there are two
TwoSamples(frame, group_var, outcome_var) ==
    IF ~HasColumn(group_var) \/ ~HasColumn(outcome_var) THEN <<>>
    ELSE LET df_clean == DropNA(frame, {group_var, outcome_var})
             groups == Unique(df_clean, group_var)
         IN  IF Len(groups) # 2 THEN <<>>
             ELSE <<GroupData(df_clean, group_var, outcome_var, groups[1]),
                    GroupData(df_clean, group_var, outcome_var, groups[2])>>

run_ttest ==
    \E gv \in ColumnArgs \ {"y"}, lib \in LibCases :
        /\ LET samples == TwoSamples(df, gv, "y") IN
           samples # <<>> => LibraryAllows(samples[1], samples[2], lib)
        /\ Returned("run_ttest", <<gv, "y">>, lib,
                    RunTtestRecord(df, gv, "y", FALSE, lib))

run_ttest_paired ==
    \E gv \in ColumnArgs \ {"y"}, lib \in LibCases :
        Returned("run_ttest_paired", <<gv, "y">>, lib,
                 RunTtestRecord(df, gv, "y", TRUE, lib))

run_mannwhitney ==
    \E gv \in ColumnArgs \ {"y"}, lib \in LibCases :
        Returned("run_mannwhitney", <<gv, "y">>, lib,
                 RunMannwhitneyRecord(df, gv, "y", lib))

run_anova ==
    \E gv \in ColumnArgs \ {"y"}, lib \in LibCases :
        Returned("run_anova", <<gv, "y">>, lib, RunAnovaRecord(df, gv, "y", lib))

run_kruskal ==
    \E gv \in ColumnArgs \ {"y"}, lib \in LibCases :
        Returned("run_kruskal", <<gv, "y">>, lib, RunKruskalRecord(df, gv, "y", lib))

run_chisquare ==
    \E v2 \in ColumnArgs \ {"g"}, lib \in LibCases :
        Returned("run_chisquare", <<"g", v2>>, lib,
                 RunChisquareRecord(df, "g", v2, lib))

run_correlation ==
    \E v2 \in ColumnArgs \ {"g"}, m \in {"pearson", "spearman"}, lib \in LibCases :
        Returned("run_correlation", <<"g", v2>>, lib,
                 RunCorrelationRecord(df, "g", v2, m, lib))

run_linear_regression ==
    \E pr \in ColumnArgs \ {"y"}, lib \in LibCases :
        Returned("run_linear_regression", <<"y", pr>>, lib,
                 RunLinearRegressionRecord(df, "y", pr, lib))

run_logistic_regression ==
    \E pr \in ColumnArgs \ {"y"}, lib \in LibCases :
        Returned("run_logistic_regression", <<"y", pr>>, lib,
                 RunLogisticRegressionRecord(df, "y", pr, lib))

NextStats ==
    \/ run_ttest /\ UNCHANGED <<auditVars, aiVars, apiVars>>
    \/ run_ttest_paired /\ UNCHANGED <<auditVars, aiVars, apiVars>>
    \/ run_mannwhitney /\ UNCHANGED <<auditVars, aiVars, apiVars>>
    \/ run_anova /\ UNCHANGED <<auditVars, aiVars, apiVars>>
    \/ run_kruskal /\ UNCHANGED <<auditVars, aiVars, apiVars>>
    \/ run_chisquare /\ UNCHANGED <<auditVars, aiVars, apiVars>>
    \/ run_correlation /\ UNCHANGED <<auditVars, aiVars, apiVars>>
    \/ run_linear_regression /\ UNCHANGED <<auditVars, aiVars, apiVars>>
    \/ run_logistic_regression /\ UNCHANGED <<auditVars, aiVars, apiVars>>

(***************************************************************************)
(* ResultFormatter.to_json_safe                                            *)
(* Only the shape of a value matters to it: a scalar, a null (None or NaN),*)
(* or a list, tuple or dict of values.                                     *)
(***************************************************************************)
Sc == [kind |-> "scalar", items |-> <<>>]
Nul == [kind |-> "null", items |-> <<>>]
L(items) == [kind |-> "list", items |-> items]
T(items) == [kind |-> "tuple", items |-> items]
D(items) == [kind |-> "dict", items |-> items]

\* a sequence of n copies of v
Rep(n, v) == [i \in 1..n |-> v]

\* "elif pd.isna(obj)" on a list: pd.isna returns one boolean per element, and
\* the truth value of such an array is an error for two or more elements, the
\* element's own for one, and depends on the numpy release for none.
IsNaTruthRaises(obj, emptyRaises) ==
    /\ obj.kind = "list"
    /\ \/ Len(obj.items) >= 2
       \/ Len(obj.items) = 0 /\ emptyRaises

\* pd.isna(obj) is true: a null, or a list holding one null
IsNaTrue(obj) ==
    \/ obj.kind = "null"
    \/ obj.kind = "list" /\ Len(obj.items) = 1 /\ obj.items[1].kind = "null"

\* TRUE iff to_json_safe(obj) raises
RECURSIVE to_json_safe_raises(_, _)
to_json_safe_raises(obj, emptyRaises) ==
    IF IsNaTruthRaises(obj, emptyRaises) THEN TRUE
    ELSE IF IsNaTrue(obj) THEN FALSE
    ELSE \E i \in 1..Len(obj.items) :
            to_json_safe_raises(obj.items[i], emptyRaises)

(***************************************************************************)
(* DataStorage (utils/file_handlers.py)                                    *)
(* The id 'dataset_N' is the number N; 0 stands for a request without id.  *)
(***************************************************************************)
NoDatasets == [i \in {} |-> NoCall]

StoreCounterKept(cnt) == cnt
\* "self.counter += 1"
StoreCounter(cnt) == cnt + 1

\* DataStorage.store: the new map of datasets
Store(ds, cnt, frame, version) ==
    LET dataset_id == StoreCounter(cnt) IN
    [i \in DOMAIN ds \cup {dataset_id} |->
        IF i = dataset_id
        THEN [data |-> frame, version |-> version,
              versions |-> [l \in {version} |-> frame]]
        ELSE ds[i]]

\* DataStorage.get returns a frame: "dataset_id in self.datasets"
Stored(ds, dataset_id) == dataset_id \in DOMAIN ds
Get(ds, dataset_id) == ds[dataset_id].data

\* DataStorage.update with a version label
Update(ds, dataset_id, frame, version) ==
    IF ~Stored(ds, dataset_id) THEN ds
    ELSE [ds EXCEPT ![dataset_id] =
            [data |-> frame, version |-> version,
             versions |-> [l \in DOMAIN @.versions \cup {version} |->
                              IF l = version THEN frame ELSE @.versions[l]]]]

\* DataStorage.delete: the new map of datasets
Delete(ds, dataset_id) == [i \in DOMAIN ds \ {dataset_id} |-> ds[i]]

\* DataStorage.get_version
GetVersion(ds, dataset_id, version) == ds[dataset_id].versions[version]

\* the frames held in the versions of a dataset
HeldVersions(ds, dataset_id) ==
    {ds[dataset_id].versions[l] : l \in DOMAIN ds[dataset_id].versions}

(***************************************************************************)
(* DataTransformer (cleaning/transformations.py)                           *)
(***************************************************************************)
\* df.drop_duplicates(keep='first')
RECURSIVE DropDuplicatesFrom(_, _)
DropDuplicatesFrom(frame, seen) ==
    IF frame = <<>> THEN <<>>
    ELSE IF Head(frame) \in seen THEN DropDuplicatesFrom(Tail(frame), seen)
    ELSE <<Head(frame)>>
            \o DropDuplicatesFrom(Tail(frame), seen \cup {Head(frame)})

DropDuplicates(frame) == DropDuplicatesFrom(frame, {})

\* df[column].fillna(fill_value)
FillNA(frame, column, fill_value) ==
    [i \in 1..Len(frame) |->
        IF Cell(frame[i], column) = NaN
        THEN [frame[i] EXCEPT ![column] = fill_value]
        ELSE frame[i]]

\* The clean operations of the model.  A request names an operation and its
\* params; "bad" params are ones the transformer's signature does not take.
CleanOps == {"remove_duplicates", "handle_missing", "bogus"}
CleanMethods == {"drop", "value"}
FillValue == 1

\* TRUE iff the transformer raises (before it logs or returns)
TransformRaises(frame, operation, column, badParams) ==
    \/ badParams
    \/ operation = "handle_missing" /\ ~HasColumn(column)

\* result['data'] of the transformer
Transform(frame, operation, column, method) ==
    IF operation = "remove_duplicates" THEN DropDuplicates(frame)
    ELSE IF method = "drop" THEN DropNA(frame, {column})
    ELSE FillNA(frame, column, FillValue)

\* the response fields of the transformer's result, without 'data'
TransformShape(operation) ==
    IF operation = "remove_duplicates" THEN D(<<Sc, Sc, Sc, Sc, Sc>>)
    ELSE D(<<Sc, Sc, Sc, Sc, Sc, Sc, Sc>>)

(***************************************************************************)
(* The request handlers (api/routes.py)                                    *)
(* A response is the handler's name, the HTTP status and the JSON body.    *)
(* The group codes of a frame stand for the text labels of a data file.    *)
(***************************************************************************)
Columns == <<"g", "y">>    \* df.columns of every frame of the model

NoResponse == [handler |-> NoCall, status |-> 0, body |-> [success |-> FALSE]]
NoLocals == [results |-> NoResult, table |-> FALSE, interpretation |-> NoAIResult,
             valid |-> FALSE]

\* jsonify(ResultFormatter.format_error_response(error)), status
ErrorResponse(handler, status, error) ==
    [handler |-> handler, status |-> status,
     body |-> [success |-> FALSE, error |-> error]]

\* jsonify(ResultFormatter.format_success_response(data))
SuccessResponse(handler, data) ==
    [handler |-> handler, status |-> 200,
     body |-> [success |-> TRUE, data |-> data]]

\* the frames a data file may hold
ImportFrames ==
    {<<[g |-> 1, y |-> 1], [g |-> 1, y |-> 1], [g |-> 2, y |-> NaN],
       [g |-> 2, y |-> 2]>>,
     <<[g |-> 1, y |-> 1], [g |-> 2, y |-> 2], [g |-> 3, y |-> 1]>>}

\* what the upload can be: no 'file' part, an empty file name, an extension
\* that is not allowed, a file that cannot be saved, a file that cannot be
\* read as a table, or a readable data file
Uploads == {"no_file", "no_name", "bad_type", "save_error", "unreadable", "ok"}

\* the audit entries the handlers have written so far, over all datasets
RECURSIVE TotalLogged(_, _)
TotalLogged(loggers, ids) ==
    IF ids = {} THEN 0
    ELSE LET i == CHOOSE j \in ids : TRUE
         IN  Len(loggers[i]) + TotalLogged(loggers, ids \ {i})

Logged == TotalLogged(audit_loggers, DOMAIN audit_loggers)

\* FileHandler.get_preview(df)
PreviewShape(frame) ==
    D(<<L(Rep(Len(Columns), Sc)),
        L(Rep(Len(frame), D(Rep(Len(Columns), Sc)))), Sc, Sc>>)

\* DataQualityChecker.generate_data_dictionary(df): one entry per column
DataDictionaryShape(frame) ==
    D(<<Sc, Sc, L(Rep(Len(Columns), D(<<Sc, Sc, Sc, Sc>>)))>>)

\* FileHandler._generate_metadata(df)
MetadataShape(frame) ==
    D(<<Sc, Sc, L(Rep(Len(Columns), Sc)), Sc, D(Rep(Len(Columns), Sc))>>)

\* the data of import_data's success response
ImportShape(frame) ==
    D(<<Sc, Sc, PreviewShape(frame), DataDictionaryShape(frame),
        MetadataShape(frame)>>)

\* a transformer that returns without its _log_transformation call
LogToSkipped(loggers, dataset_id, action) == loggers

\* audit_loggers[dataset_id].log(action, ...), when the dataset has a logger
LogTo(loggers, dataset_id, action) ==
    IF dataset_id \in DOMAIN loggers
    THEN [loggers EXCEPT ![dataset_id] = LogEntries(@, action, "system")]
    ELSE loggers

\* "audit_loggers[dataset_id] = AuditLogger(dataset_id)" and the first log
NewLogger(loggers, dataset_id) ==
    [i \in DOMAIN loggers \cup {dataset_id} |->
        IF i = dataset_id THEN LogEntries(<<>>, "import", "system")
        ELSE loggers[i]]

\* POST /analysis/import
import_data ==
    \E upload \in Uploads, frame \in ImportFrames :
        /\ counter < MaxDatasets
        /\ Logged < MaxLogged
        /\ lastCall' = NoLocals
        /\ UNCHANGED emptyArrayRaises
        /\ IF upload \in {"no_file", "no_name", "bad_type", "unreadable",
                          "save_error"}
           THEN /\ response' =
                    ErrorResponse("import_data",
                        IF upload = "save_error" THEN 500 ELSE 400, <<upload>>)
                /\ UNCHANGED <<datasets, counter, audit_loggers, imported,
                               written>>
           ELSE LET dataset_id == StoreCounter(counter) IN
                /\ datasets' = Store(datasets, counter, frame, "v1_raw")
                /\ counter' = StoreCounter(counter)
                /\ audit_loggers' = NewLogger(audit_loggers, dataset_id)
                /\ imported' =
                    [i \in DOMAIN imported \cup {dataset_id} |->
                        IF i = dataset_id THEN frame ELSE imported[i]]
                /\ written' =
                    [i \in DOMAIN written \cup {dataset_id} |->
                        IF i = dataset_id THEN <<>> ELSE written[i]]
                /\ response' =
                    IF to_json_safe_raises(ImportShape(frame), emptyArrayRaises)
                    THEN ErrorResponse("import_data", 500, <<"ValueError">>)
                    ELSE SuccessResponse("import_data",
                            [dataset_id |-> dataset_id])

NewVersionRaw == "v1_raw"
\* clean_data: "new_version = 'v2_cleaned'"
NewVersion == "v2_cleaned"

\* the ids a request may carry: none (0), stored ones, and one never stored
RequestIds == 0..(counter + 1)

\* POST /analysis/clean
clean_data ==
    \E dataset_id \in RequestIds, operation \in CleanOps \cup {None} :
        /\ Logged < MaxLogged
        /\ lastCall' = NoLocals
        /\ UNCHANGED <<counter, imported, emptyArrayRaises>>
        /\ IF dataset_id = 0 \/ operation = None
           THEN /\ response' = ErrorResponse("clean_data", 400,
                                 <<"dataset_id and operation required">>)
                /\ UNCHANGED <<datasets, audit_loggers, written>>
           ELSE IF ~Stored(datasets, dataset_id)
           THEN /\ response' = ErrorResponse("clean_data", 404,
                                 <<"Dataset not found">>)
                /\ UNCHANGED <<datasets, audit_loggers, written>>
           ELSE IF operation = "bogus"
           THEN /\ response' = ErrorResponse("clean_data", 400,
                                 <<"Unknown operation", operation>>)
                /\ UNCHANGED <<datasets, audit_loggers, written>>
           ELSE \E column \in ColumnArgs, method \in CleanMethods,
                   badParams \in BOOLEAN :
                LET frame == Get(datasets, dataset_id) IN
                IF TransformRaises(frame, operation, column, badParams)
                THEN /\ response' = ErrorResponse("clean_data", 500,
                                      <<"exception">>)
                     /\ UNCHANGED <<datasets, audit_loggers, written>>
                ELSE LET data == Transform(frame, operation, column, method) IN
                     /\ audit_loggers' =
                            LogTo(audit_loggers, dataset_id, operation)
                     /\ datasets' =
                            Update(datasets, dataset_id, data, NewVersion)
                     /\ written' =
                            [written EXCEPT ![dataset_id] = Append(@, data)]
                     /\ response' =
                            IF to_json_safe_raises(TransformShape(operation),
                                                   emptyArrayRaises)
                            THEN ErrorResponse("clean_data", 500,
                                               <<"ValueError">>)
                            ELSE SuccessResponse("clean_data",
                                    [new_version |-> NewVersion,
                                     new_row_count |-> Len(data)])

AnalysisTypes ==
    {"ttest", "paired_ttest", "anova", "chisquare", "correlation",
     "linear_regression", "logistic_regression", "mannwhitney", "kruskal"}

\* the analysis types whose branch builds a table and asks for an interpretation
TabledTypes == AnalysisTypes \ {"mannwhitney", "kruskal"}

\* what the statistics library does in the requests of the model
ApiLibCases ==
    {lib \in LibCases : lib.levene_p = 7000 /\ lib.es = 90000 /\ lib.p = 40
                         /\ lib.fisher_p = 30000}

\* what the providers answer in the requests of the model: DeepSeek answers,
\* only Gemini's second model answers, or nobody answers
ProviderCases ==
    {[ds |-> "ok_text", gm |-> <<"non200", "non200">>],
     [ds |-> "exception", gm |-> <<"non200", "ok_text">>],
     [ds |-> "exception", gm |-> <<"exception", "non200">>]}

\* run_analysis: the dispatch on analysis_type, params naming the column var
\* next to the measurement "y"
Analyze(analysis_type, frame, var, lib) ==
    CASE analysis_type = "ttest" -> RunTtestRecord(frame, var, "y", FALSE, lib)
      [] analysis_type = "paired_ttest" ->
            RunTtestRecord(frame, var, "y", TRUE, lib)
      [] analysis_type = "anova" -> RunAnovaRecord(frame, var, "y", lib)
      [] analysis_type = "chisquare" -> RunChisquareRecord(frame, var, "y", lib)
      [] analysis_type = "correlation" ->
            RunCorrelationRecord(frame, var, "y", "pearson", lib)
      [] analysis_type = "linear_regression" ->
            RunLinearRegressionRecord(frame, "y", var, lib)
      [] analysis_type = "logistic_regression" ->
            RunLogisticRegressionRecord(frame, "y", var, lib)
      [] analysis_type = "mannwhitney" ->
            RunMannwhitneyRecord(frame, var, "y", lib)
      [] analysis_type = "kruskal" -> RunKruskalRecord(frame, var, "y", lib)

IsError(rec) == "error" \in DOMAIN rec

\* the shape of a result record: scalars, dicts and tuples throughout, plus
\* the list 'groups' of the group tests and the lists 'coefficients' and
\* 'predictors' of the regressions
ResultsShape(analysis_type, rec) ==
    IF analysis_type \in {"ttest", "paired_ttest", "mannwhitney", "anova",
                          "kruskal"}
    THEN D(<<Sc, D(<<Sc, T(<<Sc, Sc>>), Sc>>),
             D(<<Sc, Sc, L(Rep(Len(rec.variables.groups), Sc))>>)>>)
    ELSE IF analysis_type \in {"linear_regression", "logistic_regression"}
    THEN D(<<Sc, D(<<Sc, Sc>>),
             L(Rep(Len(rec.coefficients), D(<<Sc, Sc, T(<<Sc, Sc>>)>>))),
             D(<<Sc, L(Rep(Len(rec.variables.predictors), Sc))>>)>>)
    ELSE IF analysis_type = "correlation"
    THEN D(<<Sc, D(<<T(<<Sc, Sc>>)>>), D(<<Sc, Sc>>), D(<<Sc, Sc>>)>>)
    ELSE D(<<Sc, D(<<Sc, Sc, Sc>>), D(<<D(<<Sc>>), D(<<Sc>>)>>), D(<<Sc, Sc>>)>>)

\* the shape of the table a generate_*_table of tables.py returns: 'dataframe'
\* is a list with one dict per table row
TableShape(analysis_type, rec) ==
    IF analysis_type \in {"ttest", "paired_ttest", "correlation"}
    THEN D(<<L(Rep(1, D(<<Sc, Sc>>))), Sc, Sc>>)
    ELSE IF analysis_type = "anova"
    THEN D(<<D(<<L(Rep(2, D(<<Sc, Sc>>))), Sc>>),
             D(<<L(Rep((Len(rec.variables.groups)
                          * (Len(rec.variables.groups) - 1)) \div 2,
                       D(<<Sc, Sc>>))), Sc>>), Sc>>)
    ELSE IF analysis_type = "chisquare"
    THEN D(<<D(<<D(<<Sc>>), Sc>>),
             D(<<L(Rep(IF rec.effect_size.phi = None THEN 4 ELSE 5,
                       D(<<Sc, Sc>>))), Sc>>), Sc>>)
    ELSE D(<<D(<<L(Rep(Len(rec.coefficients), D(<<Sc, Sc>>))), Sc>>),
             Sc, Sc, Nul>>)

\* ResultFormatter.format_results_response raises
FormatResultsRaises(analysis_type, rec, table, emptyRaises) ==
    \/ to_json_safe_raises(ResultsShape(analysis_type, rec), emptyRaises)
    \/ table /\ to_json_safe_raises(TableShape(analysis_type, rec), emptyRaises)

\* POST /analysis/run
run_analysis ==
    \E dataset_id \in RequestIds, analysis_type \in AnalysisTypes \cup {None, "bogus"} :
        /\ Logged < MaxLogged
        /\ UNCHANGED <<datasets, counter, imported, written, emptyArrayRaises>>
        /\ IF dataset_id = 0 \/ analysis_type = None
           THEN /\ response' = ErrorResponse("run_analysis", 400,
                                 <<"dataset_id and analysis_type required">>)
                /\ lastCall' = NoLocals
                /\ UNCHANGED audit_loggers
           ELSE IF ~Stored(datasets, dataset_id)
           THEN /\ response' = ErrorResponse("run_analysis", 404,
                                 <<"Dataset not found">>)
                /\ lastCall' = NoLocals
                /\ UNCHANGED audit_loggers
           ELSE IF analysis_type = "bogus"
           THEN /\ response' = ErrorResponse("run_analysis", 400,
                                 <<"Unknown analysis type", analysis_type>>)
                /\ lastCall' = NoLocals
                /\ UNCHANGED audit_loggers
           ELSE
           \E var \in {"g", "zz"}, interpret \in BOOLEAN, lib \in ApiLibCases :
           \E prov \in IF interpret THEN ProviderCases
                       ELSE {p \in ProviderCases : p.ds = "ok_text"} :
           LET results == Analyze(analysis_type, Get(datasets, dataset_id),
                                  var, lib)
               table == analysis_type \in TabledTypes /\ ~IsError(results)
               interpretation ==
                    IF table /\ interpret
                    THEN InterpretAll(deepseek_api_key, gemini_api_key,
                                      prov.ds, prov.gm)
                    ELSE NoAIResult
           IN  /\ lastCall' = [results |-> results, table |-> table,
                               interpretation |-> interpretation,
                               valid |-> ~IsError(results)]
               /\ IF IsError(results)
                  THEN /\ response' = ErrorResponse("run_analysis", 400,
                                                    results.error)
                       /\ UNCHANGED audit_loggers
                  ELSE /\ audit_loggers' =
                            LogTo(audit_loggers, dataset_id, "analysis")
                       /\ response' =
                            IF FormatResultsRaises(analysis_type, results,
                                                   table, emptyArrayRaises)
                            THEN ErrorResponse("run_analysis", 500,
                                               <<"ValueError">>)
                            \* 'apa_table' and 'ai_interpretation' are
                            \* present iff table, interpretation were made
                            ELSE [handler |-> "run_analysis", status |-> 200,
                                  body |->
                                    [statistical_results |-> results,
                                     apa_table |-> table,
                                     ai_interpretation |-> interpretation]]

\* AuditLogger.get_log(): a dict whose 'entries' is the list of entries, each
\* a dict of scalars and a dict of details
GetLogShape(es) ==
    D(<<Sc, Sc, L(Rep(Len(es), D(<<Sc, Sc, D(<<Sc, Nul>>), Sc, Sc>>)))>>)

\* the package of generate_results_package
PackageShape(nAnalyses, nObjectives, loggers, dataset_id) ==
    D(<<Sc, Sc, L(Rep(nAnalyses, D(<<Sc>>))), L(Rep(nObjectives, Sc)),
        D(<<Sc, Sc, Sc>>)>>
      \o (IF dataset_id \in DOMAIN loggers
          THEN <<GetLogShape(loggers[dataset_id])>> ELSE <<>>))

\* the lengths of the 'analyses' list of a package request, which carries one
\* objective per analysis
ListLens == 0..2

\* POST /analysis/results-package
generate_results_package ==
    \E dataset_id \in RequestIds :
        /\ UNCHANGED <<datasets, counter, audit_loggers, imported, written,
                       emptyArrayRaises>>
        /\ IF dataset_id = 0
           THEN /\ response' = ErrorResponse("generate_results_package", 400,
                                 <<"dataset_id required">>)
                /\ lastCall' = NoLocals
           ELSE IF ~Stored(datasets, dataset_id)
           THEN /\ response' = ErrorResponse("generate_results_package", 404,
                                 <<"Dataset not found">>)
                /\ lastCall' = NoLocals
           ELSE
           \E nAnalyses \in ListLens, prov \in ProviderCases :
           LET nObjectives == nAnalyses
               methods == InterpretAll(deepseek_api_key, gemini_api_key,
                                       prov.ds, prov.gm)
           IN  /\ lastCall' = [NoLocals EXCEPT !.interpretation = methods]
               /\ response' =
                    IF to_json_safe_raises(
                          PackageShape(nAnalyses, nObjectives, audit_loggers,
                                       dataset_id), emptyArrayRaises)
                    THEN ErrorResponse("generate_results_package", 500,
                                       <<"ValueError">>)
                    ELSE SuccessResponse("generate_results_package",
                            [dataset_id |-> dataset_id,
                             sample_size |-> Len(Get(datasets, dataset_id)),
                             methods |-> methods])

ExportTypes == {"all", "audit", "code", "dictionary"}

\* the exports dict of export_results
ExportsShape(ds, loggers, dataset_id, export_type) ==
    D((IF export_type \in {"all", "audit"} /\ dataset_id \in DOMAIN loggers
       THEN <<Sc>> ELSE <<>>)
      \o (IF export_type \in {"all", "code"} THEN <<Sc>> ELSE <<>>)
      \o (IF export_type \in {"all", "dictionary"} /\ Stored(ds, dataset_id)
          THEN <<DataDictionaryShape(Get(ds, dataset_id))>> ELSE <<>>))

\* POST /analysis/export
export_results ==
    \E dataset_id \in RequestIds, export_type \in ExportTypes :
        /\ UNCHANGED <<datasets, counter, audit_loggers, imported, written,
                       emptyArrayRaises>>
        /\ lastCall' = NoLocals
        /\ response' =
            IF dataset_id = 0
            THEN ErrorResponse("export_results", 400, <<"dataset_id required">>)
            ELSE IF to_json_safe_raises(
                        ExportsShape(datasets, audit_loggers, dataset_id,
                                     export_type), emptyArrayRaises)
            THEN ErrorResponse("export_results", 500, <<"ValueError">>)
            ELSE SuccessResponse("export_results",
                                 [export_type |-> export_type])

\* GET /analysis/export-data/<dataset_id>; writing the CSV file may fail
export_data ==
    \E dataset_id \in RequestIds \ {0}, written_ok \in BOOLEAN :
        /\ UNCHANGED <<datasets, counter, audit_loggers, imported, written,
                       emptyArrayRaises>>
        /\ lastCall' = NoLocals
        /\ response' =
            IF ~Stored(datasets, dataset_id)
            THEN ErrorResponse("export_data", 404, <<"Dataset not found">>)
            ELSE IF ~written_ok
            THEN ErrorResponse("export_data", 500, <<"exception">>)
            ELSE SuccessResponse("export_data", Get(datasets, dataset_id))

InitApi ==
    /\ datasets = NoDatasets
    /\ counter = 0
    /\ audit_loggers = NoDatasets
    /\ response = NoResponse
    /\ imported = NoDatasets
    /\ written = NoDatasets
    /\ lastCall = NoLocals
    /\ cleaning = <<>>
    /\ emptyArrayRaises \in BOOLEAN

\* The variables of the handlers at rest, for the other specifications
IdleApi ==
    /\ InitApi
    /\ emptyArrayRaises = FALSE

IdleAudit == InitAudit

NextApi ==
    \/ import_data /\ UNCHANGED <<auditVars, aiVars, statVars, cleaning>>
    \/ clean_data /\ UNCHANGED <<auditVars, aiVars, statVars, cleaning>>
    \/ run_analysis /\ UNCHANGED <<auditVars, aiVars, statVars, cleaning>>
    \/ generate_results_package /\ UNCHANGED <<auditVars, aiVars, statVars, cleaning>>
    \/ export_results /\ UNCHANGED <<auditVars, aiVars, statVars, cleaning>>
    \/ export_data /\ UNCHANGED <<auditVars, aiVars, statVars, cleaning>>

(***************************************************************************)
(* Specifications                                                          *)
(***************************************************************************)
(***************************************************************************)
(* Worked data: frames larger than the frames of InitStats, built from     *)
(* samples (one per group) or from the counts of a contingency table, on   *)
(* which expected counts reach 5 and variances are defined.                *)
(***************************************************************************)
\* the frame whose group i holds the measurements samples[i]
RECURSIVE FrameFrom(_, _)
FrameFrom(samples, i) ==
    IF i > Len(samples) THEN <<>>
    ELSE [j \in 1..Len(samples[i]) |-> [g |-> i, y |-> samples[i][j]]]
            \o FrameFrom(samples, i + 1)

\* the frame of a contingency table: row i holds counts[i][w] rows with y = w
FrameOfTable(counts) ==
    FrameFrom([i \in 1..Len(counts) |->
                Rep(counts[i][1], 1) \o Rep(counts[i][2], 2)], 1)

TenZeroZeroTen == FrameOfTable(<<<<10, 0>>, <<0, 10>>>>)

ScenarioTables ==
    {<<<<10, 0>>, <<0, 10>>>>, <<<<5, 5>>, <<5, 5>>>>, <<<<9, 1>>, <<1, 9>>>>,
     <<<<3, 1>>, <<1, 3>>>>, <<<<0, 2>>, <<2, 0>>>>, <<<<4, 4>>, <<0, 0>>>>,
     <<<<1, 1>>, <<1, 1>>, <<1, 1>>>>, <<<<5, 5>>, <<5, 5>>, <<5, 5>>>>,
     <<<<2, 8>>, <<8, 2>>, <<5, 5>>>>, <<<<3, 0>>, <<0, 3>>, <<1, 1>>>>}

OneToFiveSixToTen == FrameFrom(<<<<1, 2, 3, 4, 5>>, <<6, 7, 8, 9, 10>>>>, 1)

ScenarioSamples ==
    {<<<<1, 2, 3, 4, 5>>, <<6, 7, 8, 9, 10>>>>, <<<<3, 3, 3>>, <<5, 5, 5>>>>,
     <<<<1, 2, 3>>, <<1, 2, 3>>>>, <<<<1, 2, 6>>, <<2, 3>>>>,
     <<<<1, 2>>, <<3, 4>>, <<5, 7>>>>, <<<<2, 2>>, <<2, 2>>, <<2, 2>>>>}

ScenarioFrames ==
    {FrameOfTable(t) : t \in ScenarioTables}
        \cup {FrameFrom(x, 1) : x \in ScenarioSamples}

ScenarioInit ==
    /\ IdleAudit /\ IdleAI /\ IdleApi
    /\ df \in ScenarioFrames
    /\ statOp = NoCall
    /\ statArgs = <<>>
    /\ libOut = NoLib
    /\ result = NoResult
    /\ raised = FALSE
    /\ apaTable = NoTable
SpecScenario == ScenarioInit /\ [][NextStats]_vars

(***************************************************************************)
(* _interpret_effect_size on its own: one call per step, on a metric of    *)
(* the threshold table and a value at, next to or between the thresholds.  *)
(***************************************************************************)
Metrics == {"cohens_d", "r", "eta_squared", "cramers_v", "r_squared"}

\* every threshold of the table, the floats next to it, zero and two values
\* beyond the largest threshold, of either sign
EffectValues ==
    LET marks == UNION {{Thresholds(m).small, Thresholds(m).medium,
                         Thresholds(m).large} : m \in Metrics}
        pos == {0, 90000, 316230}
                \cup UNION {{x - 1, x, x + 1} : x \in marks}
    IN  pos \cup {-x : x \in pos}

interpret_effect_size ==
    \E value \in EffectValues, metric \in Metrics :
        /\ statOp' = "_interpret_effect_size"
        /\ statArgs' = <<value, metric>>
        /\ result' = [interpretation |-> InterpretEffectSize(value, metric)]
        /\ UNCHANGED <<df, libOut, raised, apaTable>>

EffectInit == IdleAudit /\ IdleAI /\ IdleStats /\ IdleApi
NextEffect == interpret_effect_size /\ UNCHANGED <<auditVars, aiVars, apiVars>>
SpecEffect == EffectInit /\ [][NextEffect]_vars

(***************************************************************************)
(* APATableGenerator (analysis/tables.py): number formatting.  A string is *)
(* the sequence of its characters.                                         *)
(***************************************************************************)
Digit(d) == <<"0", "1", "2", "3", "4", "5", "6", "7", "8", "9">>[d + 1]

\* the decimal digits of a natural number, zero-padded to a width
RECURSIVE DigitsOf(_, _)
DigitsOf(n, width) ==
    IF n < 10 /\ width <= 1 THEN <<Digit(n)>>
    ELSE Append(DigitsOf(n \div 10, width - 1), Digit(n % 10))

\* the magnitude of a float in units of 0.00001, correctly rounded to a
\* number of decimals and counted in units of that last decimal (half to even)
RoundTo(x, decimals) ==
    LET a == IF x < 0 THEN -x ELSE x
        unit == 10 ^ (5 - decimals)
        q == a \div unit
        r == a % unit
    IN  IF 2 * r > unit \/ (2 * r = unit /\ q % 2 = 1) THEN q + 1 ELSE q

\* f'{x:.{decimals}f}'
FormatFixed(x, decimals) ==
    IF x = NaN THEN <<"n", "a", "n">>
    ELSE LET m == RoundTo(x, decimals)
             whole == DigitsOf(m \div (10 ^ decimals), 1)
             frac == DigitsOf(m % (10 ^ decimals), decimals)
         IN  (IF x < 0 THEN <<"-">> ELSE <<>>) \o whole \o <<".">> \o frac

LessThan001 == <<"<", " ", ".", "0", "0", "1">>

\* APATableGenerator._format_p_value
FormatPValue(p) ==
    IF Less(p, 100) THEN LessThan001
    ELSE Tail(FormatFixed(p, 3))

\* APATableGenerator._format_number is not called by any builder

\* Reading a rendered number back: float(text).  ok is FALSE where float()
\* raises ValueError; value is in units of 0.00001.
IsDigit(c) == \E d \in 0..9 : Digit(d) = c
DigitVal(c) == CHOOSE d \in 0..9 : Digit(d) = c
RECURSIVE NatOf(_)
NatOf(digits) ==
    IF digits = <<>> THEN 0
    ELSE 10 * NatOf(SubSeq(digits, 1, Len(digits) - 1))
            + DigitVal(digits[Len(digits)])
ParseNumber(text) ==
    LET neg == text # <<>> /\ Head(text) = "-"
        body == IF neg THEN Tail(text) ELSE text
        dots == {i \in 1..Len(body) : body[i] = "."}
        dot == IF dots = {} THEN Len(body) + 1 ELSE CHOOSE i \in dots : TRUE
        whole == SubSeq(body, 1, dot - 1)
        frac == SubSeq(body, dot + 1, Len(body))
        wellformed ==
            /\ Cardinality(dots) <= 1
            /\ Len(whole) + Len(frac) > 0
            /\ Len(frac) <= 5
            /\ \A i \in 1..Len(body) : i # dot => IsDigit(body[i])
        mag == NatOf(whole) * 100000 + NatOf(frac) * (10 ^ (5 - Len(frac)))
    IN  IF wellformed THEN [ok |-> TRUE, value |-> IF neg THEN -mag ELSE mag]
        ELSE [ok |-> FALSE, value |-> NaN]

\* every p-value from 0 to 1 in steps of 0.0001
PValues == {10 * k : k \in 0..10000}

\* the p-value of a record about to be rendered
InitFormat ==
    /\ df = <<>>
    /\ statOp = NoCall
    /\ statArgs \in {<<p>> : p \in PValues}
    /\ libOut = NoLib
    /\ result = NoResult
    /\ raised = FALSE
    /\ apaTable = NoTable

format_p_value ==
    /\ statOp = NoCall
    /\ statOp' = "_format_p_value"
    /\ result' = [text |-> FormatPValue(statArgs[1])]
    /\ UNCHANGED <<df, statArgs, libOut, raised, apaTable>>

FormatInit == IdleAudit /\ IdleAI /\ InitFormat /\ IdleApi
NextFormat == format_p_value /\ UNCHANGED <<auditVars, aiVars, apiVars>>
SpecFormat == FormatInit /\ [][NextFormat]_vars

(***************************************************************************)
(* APATableGenerator (analysis/tables.py): the builders.  A cell holds the *)
(* characters the f-string renders; _df_to_markdown joins the cells of the *)
(* same rows, so 'markdown' is modelled by the title and those rows.       *)
(***************************************************************************)
\* the rendering of a float whose value is not modelled
Unmodelled == <<"#">>

\* APATableGenerator._df_to_markdown
DfToMarkdown(rows, title) == [title |-> title, lines |-> rows]

\* statistics.get_descriptive_stats: one entry of 'categories', with
\* 'percentage': round(pct[cat], 2) of the share among the non-missing values
Category(frame, var, cat) ==
    LET present == SelectSeq(frame, LAMBDA r : Cell(r, var) # NaN)
        n == CountOf(frame, var, cat)
    IN  [category |-> cat, n |-> n,
         percentage |-> RoundTo(Ratio(n * 100, Len(present)), 2) * 1000]

\* StatisticalAnalyzer.get_descriptive_stats for a list of column names.
\* A numeric column counts as continuous only with more than 10 different
\* values, which no frame of the model has; the categories are listed by
\* value_counts(), whose order is not modelled.
GetDescriptiveStats(frame, variables) ==
    [continuous |-> <<>>,
     categorical |->
        [var \in {v \in Range(variables) : HasColumn(v)} |->
            LET cats == Range(Unique(frame, var)) \ {NaN} IN
            [n |-> Len(SelectSeq(frame, LAMBDA r : Cell(r, var) # NaN)),
             missing |-> CountOf(frame, var, NaN),
             unique_values |-> Cardinality(cats),
             categories |-> {Category(frame, var, cat) : cat \in cats},
             sparse_categories |->
                {cat \in cats : Category(frame, var, cat).n < 5}]]]

\* APATableGenerator.generate_table1_characteristics: no look at 'error'
GenerateTable1Characteristics(descriptive_stats) ==
    LET continuous ==
            IF "continuous" \in DOMAIN descriptive_stats
            THEN {[Characteristic |-> var, Total |-> Unmodelled] :
                    var \in DOMAIN descriptive_stats.continuous}
            ELSE {}
        categorical ==
            IF "categorical" \in DOMAIN descriptive_stats
            THEN UNION {{[Characteristic |-> cat.category,
                          Total |-> <<DigitsOf(cat.n, 1),
                                      FormatFixed(cat.percentage, 1)>>] :
                            cat \in descriptive_stats.categorical[var].categories} :
                        var \in DOMAIN descriptive_stats.categorical}
            ELSE {}
        rows == continuous \cup categorical
    IN  [dataframe |-> rows,
         markdown |-> DfToMarkdown(rows, "Table 1\nSample Characteristics"),
         apa_note |-> "Note. Continuous variables presented as Mean (SD); categorical variables as n (%)."]

\* APATableGenerator.generate_ttest_table.  The statistic of the record is a
\* modelled number for the pooled test only.
GenerateTtestTable(ttest_results) ==
    IF "error" \in DOMAIN ttest_results THEN [error |-> ttest_results.error]
    ELSE
    LET group_stats == ttest_results.group_statistics
        groups == ttest_results.variables.groups
        rows == <<[Variable |-> ttest_results.variables.outcome,
                   group1 |-> <<groups[1], Unmodelled, Unmodelled>>,
                   group2 |-> <<groups[2], Unmodelled, Unmodelled>>,
                   t |-> IF ttest_results.test_type = "Independent Samples t-test"
                         THEN FormatFixed(ttest_results.test_statistic, 2)
                         ELSE Unmodelled,
                   df |-> DigitsOf(ttest_results.degrees_of_freedom, 1),
                   p |-> FormatPValue(ttest_results.p_value),
                   cohens_d |->
                        <<FormatFixed(ttest_results.effect_size.cohens_d, 2),
                          Unmodelled, Unmodelled>>]>>
    IN  [dataframe |-> rows,
         markdown |-> DfToMarkdown(rows, "Table\nIndependent Samples t-test Results"),
         apa_note |->
            [N |-> group_stats[groups[1]].n + group_stats[groups[2]].n,
             interpretation |-> ttest_results.effect_size.interpretation]]

\* APATableGenerator.generate_anova_table
GenerateAnovaTable(anova_results) ==
    IF "error" \in DOMAIN anova_results THEN [error |-> anova_results.error]
    ELSE
    LET rows == <<[Source |-> "Between Groups",
                   df |-> DigitsOf(anova_results.degrees_of_freedom.between, 1),
                   F |-> Unmodelled,
                   p |-> FormatPValue(anova_results.p_value),
                   eta_squared |->
                        FormatFixed(anova_results.effect_size.eta_squared, 3)],
                  [Source |-> "Within Groups",
                   df |-> DigitsOf(anova_results.degrees_of_freedom.within, 1),
                   F |-> <<"-">>, p |-> <<"-">>, eta_squared |-> <<"-">>]>>
    IN  [main_table |->
            [dataframe |-> rows,
             markdown |-> DfToMarkdown(rows, "Table\nOne-Way ANOVA Results")],
         posthoc_table |->
            [dataframe |-> Unmodelled,
             markdown |-> DfToMarkdown(Unmodelled, "Post-Hoc Comparisons (Tukey HSD)")],
         apa_note |->
            [interpretation |-> anova_results.effect_size.interpretation]]

\* APATableGenerator.generate_chisquare_table
GenerateChisquareTable(chi_results) ==
    IF "error" \in DOMAIN chi_results THEN [error |-> chi_results.error]
    ELSE
    LET summary ==
            <<[Statistic |-> "Chi-square", Value |->
                    FormatFixed(chi_results.test_statistic, 2)],
              [Statistic |-> "Degrees of freedom", Value |->
                    DigitsOf(chi_results.degrees_of_freedom, 1)],
              [Statistic |-> "p-value", Value |->
                    FormatPValue(chi_results.p_value)],
              [Statistic |-> "Cramer's V", Value |->
                    FormatFixed(chi_results.effect_size.cramers_v, 3)]>>
            \o (IF chi_results.effect_size.phi # None
                THEN <<[Statistic |-> "Phi", Value |-> Unmodelled]>>
                ELSE <<>>)
    IN  [contingency_table |->
            [dataframe |-> Unmodelled,
             markdown |-> DfToMarkdown(Unmodelled, "Observed Frequencies")],
         summary |->
            [dataframe |-> summary,
             markdown |-> DfToMarkdown(summary, "Chi-Square Test Results")],
         apa_note |->
            [N |-> chi_results.sample_size,
             interpretation |-> chi_results.effect_size.interpretation]]

\* APATableGenerator.generate_correlation_table
GenerateCorrelationTable(corr_results) ==
    IF "error" \in DOMAIN corr_results THEN [error |-> corr_results.error]
    ELSE
    LET rows == <<[Variables |-> <<corr_results.variables.variable1,
                                   corr_results.variables.variable2>>,
                   r |-> FormatFixed(corr_results.correlation_coefficient, 3),
                   ci_95 |-> <<Unmodelled, Unmodelled>>,
                   r_squared |-> Unmodelled,
                   p |-> FormatPValue(corr_results.p_value)]>>
    IN  [dataframe |-> rows,
         markdown |-> DfToMarkdown(rows, corr_results.test_type),
         apa_note |->
            [N |-> corr_results.sample_size,
             strength |-> corr_results.interpretation.strength,
             direction |-> corr_results.interpretation.direction]]

\* APATableGenerator.generate_regression_table
GenerateRegressionTable(reg_results) ==
    IF "error" \in DOMAIN reg_results THEN [error |-> reg_results.error]
    ELSE
    LET coefs == reg_results.coefficients
        rows == [i \in 1..Len(coefs) |->
                    [Variable |-> IF coefs[i].variable # "const"
                                  THEN coefs[i].variable ELSE "(Constant)",
                     B |-> Unmodelled, SE |-> Unmodelled,
                     beta |-> IF coefs[i].beta # None THEN Unmodelled ELSE <<"-">>,
                     t |-> Unmodelled,
                     p |-> FormatPValue(coefs[i].p),
                     ci_95 |-> <<Unmodelled, Unmodelled>>]]
        model == reg_results.model_summary
    IN  [coefficients |->
            [dataframe |-> rows,
             markdown |-> DfToMarkdown(rows, "Table\nLinear Regression Results")],
         model_summary |->
            [r_squared |-> FormatFixed(model.r_squared, 3),
             r_squared_adj |-> Unmodelled,
             df1 |-> Len(coefs) - 1,
             df2 |-> reg_results.sample_size - Len(coefs),
             f_statistic |-> Unmodelled,
             p |-> FormatPValue(model.f_pvalue)],
         apa_note |->
            [N |-> reg_results.sample_size,
             interpretation |-> reg_results.effect_size.interpretation],
         vif |-> reg_results.multicollinearity]

\* APATableGenerator.generate_logistic_regression_table
GenerateLogisticRegressionTable(log_results) ==
    IF "error" \in DOMAIN log_results THEN [error |-> log_results.error]
    ELSE
    LET coefs == log_results.coefficients
        rows == [i \in 1..Len(coefs) |->
                    [Variable |-> IF coefs[i].variable # "const"
                                  THEN coefs[i].variable ELSE "(Constant)",
                     B |-> Unmodelled, SE |-> Unmodelled, Wald |-> Unmodelled,
                     p |-> FormatPValue(coefs[i].p),
                     OR |-> Unmodelled,
                     OR_ci_95 |-> <<Unmodelled, Unmodelled>>]]
        model == log_results.model_summary
    IN  [coefficients |->
            [dataframe |-> rows,
             markdown |-> DfToMarkdown(rows, "Table\nLogistic Regression Results")],
         model_summary |->
            [pseudo_r_squared |-> FormatFixed(model.pseudo_r_squared, 3),
             llr_pvalue |-> FormatPValue(model.llr_pvalue),
             accuracy |-> Unmodelled],
         apa_note |->
            [N |-> log_results.sample_size,
             interpretation |-> log_results.effect_size.interpretation]]

\* the lists of column names a describe request may carry
VariableLists == {<<>>, <<"g">>, <<"y", "g">>, <<"zz">>, <<"zz", "g">>}

\* StatisticalAnalyzer.get_descriptive_stats: "if variables is None:
\* variables = df.columns.tolist()"; a variables argument that is no list
\* (a number of the request's JSON) fails in "for var in variables", inside
\* the try block
get_descriptive_stats ==
    \/ Returned("get_descriptive_stats", <<None>>, NoLib,
                GetDescriptiveStats(df, <<"g", "y">>))
    \/ \E variables \in VariableLists :
            Returned("get_descriptive_stats", <<variables>>, NoLib,
                     GetDescriptiveStats(df, variables))
    \/ Returned("get_descriptive_stats", <<0>>, NoLib, OnException("TypeError"))

\* a builder is handed the record the analyzer returned last, whichever it is
Built(op, made) ==
    /\ statOp \in op
    /\ ~raised
    /\ apaTable' = made
    /\ UNCHANGED <<df, statOp, statArgs, libOut, result, raised>>

generate_table1_characteristics ==
    Built({"get_descriptive_stats"}, GenerateTable1Characteristics(result))
generate_ttest_table ==
    Built({"run_ttest", "run_ttest_paired"}, GenerateTtestTable(result))
generate_anova_table == Built({"run_anova"}, GenerateAnovaTable(result))
generate_chisquare_table ==
    Built({"run_chisquare"}, GenerateChisquareTable(result))
generate_correlation_table ==
    Built({"run_correlation"}, GenerateCorrelationTable(result))
generate_regression_table ==
    Built({"run_linear_regression"}, GenerateRegressionTable(result))
generate_logistic_regression_table ==
    Built({"run_logistic_regression"}, GenerateLogisticRegressionTable(result))

NextTables ==
    \/ NextStats
    \/ get_descriptive_stats /\ UNCHANGED <<auditVars, aiVars, apiVars>>
    \/ generate_table1_characteristics /\ UNCHANGED <<auditVars, aiVars, apiVars>>
    \/ generate_ttest_table /\ UNCHANGED <<auditVars, aiVars, apiVars>>
    \/ generate_anova_table /\ UNCHANGED <<auditVars, aiVars, apiVars>>
    \/ generate_chisquare_table /\ UNCHANGED <<auditVars, aiVars, apiVars>>
    \/ generate_correlation_table /\ UNCHANGED <<auditVars, aiVars, apiVars>>
    \/ generate_regression_table /\ UNCHANGED <<auditVars, aiVars, apiVars>>
    \/ generate_logistic_regression_table
            /\ UNCHANGED <<auditVars, aiVars, apiVars>>
SpecTables == ScenarioInit /\ [][NextTables]_vars

(***************************************************************************)
(* AssumptionChecker (analysis/assumptions.py): check_normality,           *)
(* check_multicollinearity and the batch call run_all_checks, on frames of *)
(* the sizes at which the sub-tests start and stop to apply.               *)
(***************************************************************************)
\* What the library hands to one call: the p-values of shapiro() and
\* normaltest(), the variance inflation factor of the predictors, and
\* whether the call raises.
NoFault ==
    [shapiro_p |-> 30000, dagostino_p |-> 30000, vif |-> 100000,
     shapiro_raises |-> FALSE, dagostino_raises |-> FALSE, vif_raises |-> FALSE]
AssumptionLibCases ==
    {NoFault}
    \cup {[NoFault EXCEPT !.shapiro_p = x] : x \in {NaN, 4000, 5000}}
    \cup {[NoFault EXCEPT !.dagostino_p = x] : x \in {4000, 5000}}
    \cup {[NoFault EXCEPT !.vif = x] : x \in {600000, 1100000}}
    \cup {[NoFault EXCEPT !.shapiro_raises = TRUE],
          [NoFault EXCEPT !.dagostino_raises = TRUE],
          [NoFault EXCEPT !.vif_raises = TRUE],
          [NoFault EXCEPT !.shapiro_raises = TRUE, !.vif_raises = TRUE]}

\* pd.Series(data).dropna()
SeriesDropNA(data) == SelectSeq(data, LAMBDA x : x # NaN)

ShapiroAppliesFromTwo(n) == n >= 2 /\ n <= 5000
\* check_normality: "if n >= 3 and n <= 5000"
ShapiroApplies(n) == n >= 3 /\ n <= 5000
\* check_normality: "if n >= 20", the result kept unless normaltest raises
DagostinoApplies(n) == n >= 20

\* one entry of results['tests']
SubTest(p) == [statistic |-> Num, p_value |-> Round4(p), normal |-> Greater(p, Alpha)]

\* AssumptionChecker.check_normality.  Series.skew() and Series.kurtosis() of
\* numbers return nan on too few values and do not raise.
CheckNormality(data, variable_name, lib) ==
    LET n == Len(SeriesDropNA(data))
        executed ==
            (IF ShapiroApplies(n) THEN {"shapiro_wilk"} ELSE {})
            \cup (IF DagostinoApplies(n) /\ ~lib.dagostino_raises
                  THEN {"dagostino_pearson"} ELSE {})
        tests == [t \in executed |->
                    IF t = "shapiro_wilk" THEN SubTest(lib.shapiro_p)
                    ELSE SubTest(lib.dagostino_p)]
        \* all(test_results), True for an empty list
        all_normal == \A t \in executed : tests[t].normal
    IN  IF ShapiroApplies(n) /\ lib.shapiro_raises THEN OnException("exception")
        ELSE
        [variable |-> variable_name,
         sample_size |-> n,
         tests |-> tests,
         descriptive |->
            [skewness |-> Num, kurtosis |-> Num,
             skewness_concern |-> Num, kurtosis_concern |-> Num],
         conclusion |->
            [normal |-> IF executed # {} THEN all_normal ELSE None,
             recommendation |->
                IF all_normal THEN "parametric" ELSE "non-parametric"]]

\* AssumptionChecker.check_multicollinearity; variance_inflation_factor
\* is taken to give the same factor for every predictor
CheckMulticollinearity(frame, predictors, lib) ==
    IF \E i \in 1..Len(predictors) : ~HasColumn(predictors[i])
    THEN OnException("KeyError")
    ELSE IF Len(predictors) < 2
    THEN [message |-> "VIF requires at least 2 predictors"]
    ELSE IF lib.vif_raises THEN OnException("exception")
    ELSE
    [vif |-> [i \in 1..Len(predictors) |->
                [variable |-> predictors[i], VIF |-> Round4(lib.vif),
                 concern |-> lib.vif > 500000, severe |-> lib.vif > 1000000]],
     correlation_matrix |-> Num,
     high_correlations |-> Num,
     conclusion |->
        [multicollinearity_present |-> lib.vif > 500000,
         severe_multicollinearity |-> lib.vif > 1000000,
         recommendation |->
            IF lib.vif > 1000000 THEN "consider_removing" ELSE "proceed"]]

\* AssumptionChecker.run_all_checks, for an outcome that is a column of df
RunAllChecks(frame, outcome, predictors, test_type, lib) ==
    IF test_type # "regression" THEN [test_type |-> test_type]
    ELSE
    LET normality == CheckNormality(Column(frame, outcome), outcome, lib)
        note == "Run regression first, then check residuals for linearity and homoscedasticity"
    IN  IF Len(predictors) > 1
        THEN [test_type |-> test_type, normality |-> normality,
              multicollinearity |-> CheckMulticollinearity(frame, predictors, lib),
              note |-> note]
        ELSE [test_type |-> test_type, normality |-> normality, note |-> note]

\* run_all_checks evaluates df[outcome] before it calls check_normality and
\* outside every try block: a KeyError leaves the batch call
RunAllChecksRaises(outcome, test_type) ==
    test_type = "regression" /\ ~HasColumn(outcome)

\* the sizes next to 3 and to 20, where the sub-tests start to apply (no
\* series of the model is longer than 5000)
SeriesSizes == {0, 1, 2, 3, 4, 19, 20, 21}
\* frames of these sizes, the group of the first row missing or not
AssumptionFrames ==
    {[i \in 1..n |-> [g |-> IF i <= m THEN NaN ELSE 1 + (i % 2), y |-> 1 + (i % 2)]] :
        n \in SeriesSizes, m \in 0..1}
PredictorLists == {<<"g">>, <<"g", "y">>, <<"g", "zz">>}

Checked(op, args, rec) ==
    /\ statOp' = op
    /\ statArgs' = args
    /\ result' = rec
    /\ raised' = FALSE
    /\ UNCHANGED <<df, libOut, apaTable>>

\* routes.check_assumptions: check_normality(df[variable], variable)
check_normality ==
    \E variable \in {"g", "y"}, lib \in AssumptionLibCases :
        Checked("check_normality", <<variable>>,
                CheckNormality(Column(df, variable), variable, lib))

check_multicollinearity ==
    \E predictors \in PredictorLists, lib \in AssumptionLibCases :
        Checked("check_multicollinearity", <<predictors>>,
                CheckMulticollinearity(df, predictors, lib))

run_all_checks ==
    \E outcome \in ColumnArgs, predictors \in PredictorLists,
       test_type \in {"regression", "ttest", "anova"}, lib \in AssumptionLibCases :
        /\ statOp' = "run_all_checks"
        /\ statArgs' = <<outcome, predictors, test_type>>
        /\ raised' = RunAllChecksRaises(outcome, test_type)
        /\ result' = IF RunAllChecksRaises(outcome, test_type) THEN NoResult
                     ELSE RunAllChecks(df, outcome, predictors, test_type, lib)
        /\ UNCHANGED <<df, libOut, apaTable>>

InitAssumptions ==
    /\ df \in AssumptionFrames
    /\ statOp = NoCall
    /\ statArgs = <<>>
    /\ libOut = NoLib
    /\ result = NoResult
    /\ raised = FALSE
    /\ apaTable = NoTable

AssumptionsInit == IdleAudit /\ IdleAI /\ InitAssumptions /\ IdleApi
NextAssumptions ==
    \/ check_normality /\ UNCHANGED <<auditVars, aiVars, apiVars>>
    \/ check_multicollinearity /\ UNCHANGED <<auditVars, aiVars, apiVars>>
    \/ run_all_checks /\ UNCHANGED <<auditVars, aiVars, apiVars>>
SpecAssumptions == AssumptionsInit /\ [][NextAssumptions]_vars

(***************************************************************************)
(* DataStorage on its own: store and delete calls, one at a time.  The     *)
(* variable imported keeps every id store has returned, with its frame.    *)
(***************************************************************************)
store ==
    \E frame \in ImportFrames :
        /\ counter < MaxStored
        /\ counter' = StoreCounter(counter)
        /\ datasets' = Store(datasets, counter, frame, "v1_raw")
        /\ imported' =
            [i \in DOMAIN imported \cup {StoreCounter(counter)} |->
                IF i = StoreCounter(counter) THEN frame ELSE imported[i]]
        /\ response' = [handler |-> "DataStorage.store",
                        returned |-> StoreCounter(counter)]
        /\ UNCHANGED <<audit_loggers, written, lastCall, cleaning,
                       emptyArrayRaises>>

\* DataStorage.delete: True iff the dataset was stored
delete ==
    \E dataset_id \in 1..MaxStored :
        /\ datasets' = Delete(datasets, dataset_id)
        /\ response' = [handler |-> "DataStorage.delete",
                        returned |-> Stored(datasets, dataset_id)]
        /\ UNCHANGED <<counter, imported, audit_loggers, written, lastCall,
                       cleaning, emptyArrayRaises>>

StoreInit == IdleAudit /\ IdleAI /\ IdleStats /\ IdleApi
NextStore ==
    \/ store /\ UNCHANGED <<auditVars, aiVars, statVars>>
    \/ delete /\ UNCHANGED <<auditVars, aiVars, statVars>>
SpecStore == StoreInit /\ [][NextStore]_vars

(***************************************************************************)
(* Two clean requests on the same stored dataset, served by two threads.   *)
(* routes.clean_data takes no lock: a request reads the current data       *)
(* (data_storage.get), the transformer works on its own copy and appends   *)
(* the audit entry, and the handler writes the store (data_storage.update);*)
(* the steps of the two requests interleave in any order.  Both requests   *)
(* name the stored dataset and an operation the handler knows.             *)
(***************************************************************************)
Requests == {1, 2}

\* a request not yet read by its handler
Waiting ==
    [pc |-> "start", operation |-> None, column |-> None, method |-> None,
     df |-> <<>>, data |-> <<>>]

\* the dataset the two requests name
Shared == StoreCounter(0)

InitClean ==
    \E frame \in ImportFrames :
        /\ datasets = Store(NoDatasets, 0, frame, "v1_raw")
        /\ counter = StoreCounter(0)
        /\ audit_loggers = NewLogger(NoDatasets, Shared)
        /\ response = NoResponse
        /\ imported = [i \in {Shared} |-> frame]
        /\ written = [i \in {Shared} |-> <<>>]
        /\ lastCall = NoLocals
        /\ cleaning = [r \in Requests |-> Waiting]
        /\ emptyArrayRaises = FALSE

\* clean_data: "df = data_storage.get(dataset_id)"
clean_get(r) ==
    \E operation \in CleanOps \ {"bogus"}, column \in ColumnArgs,
       method \in CleanMethods :
        /\ cleaning[r].pc = "start"
        /\ operation = "remove_duplicates" => column = "g" /\ method = "drop"
        /\ cleaning' = [cleaning EXCEPT ![r] =
                [pc |-> "read", operation |-> operation, column |-> column,
                 method |-> method, df |-> Get(datasets, Shared), data |-> <<>>]]
        /\ UNCHANGED <<datasets, counter, audit_loggers, response, imported,
                       written, lastCall, emptyArrayRaises>>

\* the transformer, up to its _log_transformation call: the result is
\* computed from the frame this request has read; an exception ends the
\* request with the 500 response
clean_transform(r) ==
    LET c == cleaning[r] IN
    /\ c.pc = "read"
    /\ IF TransformRaises(c.df, c.operation, c.column, FALSE)
       THEN /\ cleaning' = [cleaning EXCEPT ![r].pc = "failed"]
            /\ response' = ErrorResponse("clean_data", 500, <<"exception">>)
       ELSE /\ cleaning' = [cleaning EXCEPT ![r].pc = "transformed",
                    ![r].data = Transform(c.df, c.operation, c.column, c.method)]
            /\ UNCHANGED response
    /\ UNCHANGED <<datasets, counter, audit_loggers, imported, written,
                   lastCall, emptyArrayRaises>>

\* DataTransformer._log_transformation
clean_log(r) ==
    /\ cleaning[r].pc = "transformed"
    /\ audit_loggers' = LogTo(audit_loggers, Shared, cleaning[r].operation)
    /\ cleaning' = [cleaning EXCEPT ![r].pc = "logged"]
    /\ UNCHANGED <<datasets, counter, response, imported, written, lastCall,
                   emptyArrayRaises>>

\* clean_data: "data_storage.update(dataset_id, result['data'],
\* version=new_version)" and the response
clean_update(r) ==
    LET c == cleaning[r] IN
    /\ c.pc = "logged"
    /\ datasets' = Update(datasets, Shared, c.data, NewVersion)
    /\ written' = [written EXCEPT ![Shared] = Append(@, c.data)]
    /\ response' =
        IF to_json_safe_raises(TransformShape(c.operation), emptyArrayRaises)
        THEN ErrorResponse("clean_data", 500, <<"ValueError">>)
        ELSE SuccessResponse("clean_data",
                [new_version |-> NewVersion, new_row_count |-> Len(c.data)])
    /\ cleaning' = [cleaning EXCEPT ![r].pc = "done"]
    /\ UNCHANGED <<counter, audit_loggers, imported, lastCall, emptyArrayRaises>>

CleanInit == IdleAudit /\ IdleAI /\ IdleStats /\ InitClean
NextClean ==
    \/ \E r \in Requests : clean_get(r) /\ UNCHANGED <<auditVars, aiVars, statVars>>
    \/ \E r \in Requests :
            clean_transform(r) /\ UNCHANGED <<auditVars, aiVars, statVars>>
    \/ \E r \in Requests : clean_log(r) /\ UNCHANGED <<auditVars, aiVars, statVars>>
    \/ \E r \in Requests :
            clean_update(r) /\ UNCHANGED <<auditVars, aiVars, statVars>>
SpecClean == CleanInit /\ [][NextClean]_vars

AuditInit == InitAudit /\ IdleAI /\ IdleStats /\ IdleApi
SpecAudit == AuditInit /\ [][NextAudit]_vars

AIInit == IdleAudit /\ InitAI /\ IdleStats /\ IdleApi
SpecAI == AIInit /\ [][NextAI]_vars

\* Every request returns or times out (timeout=60), and the interpreter runs
\* on until it returns: the steps of a running call are taken eventually.
FairSpecAI ==
    SpecAI /\ WF_vars(InterpretStep /\ UNCHANGED <<auditVars, statVars, apiVars>>)

StatsInit == IdleAudit /\ IdleAI /\ InitStats /\ IdleApi
SpecStats == StatsInit /\ [][NextStats]_vars

\* the handlers share one interpreter, its keys read once from the environment
ApiInit ==
    /\ IdleAudit
    /\ InitAI
    /\ deepseek_api_key = gemini_api_key
    /\ IdleStats
    /\ InitApi
SpecApi == ApiInit /\ [][NextApi]_vars

(***************************************************************************)
(* Properties                                                              *)
(***************************************************************************)
\* C1: every test operation of StatisticalAnalyzer returns a record without
\* an 'error' key or a record whose only key is 'error'; a precondition
\* violation or a fault of the computation never yields a partial record and
\* never leaves the operation as an exception.
C1_ErrorOnlyOrErrorFree ==
    statOp # NoCall =>
        /\ ~raised
        /\ "error" \in DOMAIN result => DOMAIN result = {"error"}
        /\ "error" \notin DOMAIN result => "test_type" \in DOMAIN result

\* C1 case: the statistics library failed inside a test whose preconditions held
C1_FaultCaught ==
    /\ statOp = "run_logistic_regression"
    /\ "error" \in DOMAIN result
    /\ result.error = <<"exception">>

\* C2: in every record without 'error' that carries 'p_value' and
\* 'significant', the flag is true exactly when the reported p-value is
\* strictly below alpha.
C2_FlagMatchesReportedP ==
    (/\ statOp # NoCall
     /\ {"p_value", "significant", "alpha"} \subseteq DOMAIN result)
        => (result.significant <=> Less(result.p_value, result.alpha))

\* C3: within one interpret() call DeepSeek is requested before Gemini, Gemini
\* only after DeepSeek returned no text, and the template is the result only
\* after both returned no text; 'model' names the one that answered, 'success'
\* is false exactly for the template, and nothing is raised.
C3_ProviderOrder ==
    /\ aiPc # "raised"
    /\ \A i, j \in 1..Len(requests) :
        i < j /\ requests[j].to = "deepseek" => requests[i].to = "deepseek"
    /\ (\E i \in 1..Len(requests) : requests[i].to = "gemini")
        => /\ aiPc \notin {"deepseek", "deepseek_wait", "deepseek_returned"}
           /\ ~Truthy(dsResult)
    /\ aiPc = "done" =>
        /\ aiResult.model \in
                {"deepseek-reasoner", "gemini-flash", "fallback-template"}
        /\ aiResult.model = "deepseek-reasoner" <=> Truthy(dsResult)
        /\ aiResult.model = "gemini-flash"
                <=> ~Truthy(dsResult) /\ Truthy(gmResult)
        /\ aiResult.success <=> aiResult.model # "fallback-template"
        /\ aiResult.model = "fallback-template"
                => aiResult.interpretation = FallbackText
        /\ aiResult.model # "fallback-template"
                => aiResult.interpretation = "text"

\* C3 case: DeepSeek and Gemini's first model failed, the second model answered
C3_SecondGeminiModelAnswers ==
    /\ aiPc = "done"
    /\ aiResult.model = "gemini-flash"
    /\ Len(requests) = 3

\* C4: with both provider keys empty interpret() returns success = false with
\* the fixed fallback text, raises nothing and sends no request.
C4_NoKeysNoRequests ==
    (~deepseek_api_key /\ ~gemini_api_key) =>
        /\ requests = <<>>
        /\ aiPc # "raised"
        /\ aiPc = "done" =>
            /\ aiResult.success = FALSE
            /\ aiResult.interpretation = FallbackText

\* C4 case: a call with both keys empty has returned
C4_NoKeysReturned ==
    /\ ~deepseek_api_key
    /\ ~gemini_api_key
    /\ aiPc = "done"

\* C5: when both providers fail during an analysis request whose statistical
\* result is valid, the response still carries the results, the table and the
\* fallback interpretation and is no error response; the results-package
\* request likewise still returns a package.
C5_AnalysisSurvivesProviderFailure ==
    /\ (/\ response.handler = "run_analysis"
        /\ lastCall.valid
        /\ lastCall.interpretation = FallbackResult)
        => /\ response.status = 200
           /\ response.body.statistical_results = lastCall.results
           /\ response.body.apa_table
           /\ response.body.ai_interpretation = FallbackResult
    /\ (/\ response.handler = "generate_results_package"
        /\ lastCall.interpretation = FallbackResult)
        => /\ response.status = 200
           /\ response.body.data.methods = FallbackResult

\* the endpoints the running interpret() call has requested so far
Endpoints == {requests[i].model : i \in 1..Len(requests)}

\* C6: interpret() never retries: within one call each endpoint is requested
\* at most once, so at most three requests are made, and as every request
\* returns or times out the call always ends with a result.
C6_NoRetryAndTermination ==
    /\ [](/\ Len(requests) <= 3
          /\ Cardinality(Endpoints) = Len(requests))
    /\ (aiPc \notin {"idle", "done"}) ~> (aiPc = "done" /\ aiResult # NoAIResult)

\* C6 case: all three endpoints were requested and the call ended
C6_ThreeRequestsThenTemplate ==
    /\ aiPc = "done"
    /\ Len(requests) = 3
    /\ aiResult.model = "fallback-template"

\* C7: after any sequence of successful clean requests on a dataset, the
\* snapshot each of them wrote and the original are all still held in the
\* dataset's versions.
C7_EverySnapshotHeld ==
    \A id \in DOMAIN datasets :
        /\ imported[id] \in HeldVersions(datasets, id)
        /\ \A i \in 1..Len(written[id]) :
                written[id][i] \in HeldVersions(datasets, id)

\* C8: after any sequence of import, clean, analysis and export requests the
\* 'v1_raw' snapshot of every stored dataset equals the data as imported.
C8_RawSnapshotIsImport ==
    \A id \in DOMAIN datasets :
        /\ "v1_raw" \in DOMAIN datasets[id].versions
        /\ GetVersion(datasets, id, "v1_raw") = imported[id]

\* C8 case: two clean requests have changed the data of a dataset
C8_CleanedTwice ==
    \E id \in DOMAIN datasets :
        /\ Len(written[id]) = 2
        /\ written[id][1] # imported[id]
        /\ written[id][2] # written[id][1]
        /\ Get(datasets, id) = written[id][2]

\* entries' is entries with one entry appended at the end
Appended == Len(entries') = Len(entries) + 1 /\ SubSeq(entries', 1, Len(entries)) = entries

\* entries' is entries without its last entry
LastRemoved ==
    Len(entries) >= 1 /\ entries' = SubSeq(entries, 1, Len(entries) - 1)

\* C9 as stated: the entries of an AuditLogger change only by appending one
\* entry at the end or by clearing all entries at once.
C9_AppendOrClearOnly ==
    [][entries' = entries \/ Appended \/ entries' = <<>>]_vars

\* C9: the entries of an AuditLogger change only by appending one entry at
\* the end, by removing the last entry (undo_last) or by clearing all entries
\* at once; no operation removes or alters an entry other than the last.
C9_AppendUndoOrClear ==
    [][entries' = entries \/ Appended \/ LastRemoved \/ entries' = <<>>]_vars

\* C9 case: undo_last has removed the last entry of a trail and left the rest
C9_UndoLeftEarlierEntries ==
    /\ auditOp = "undo_last"
    /\ Len(entries) >= 2
    /\ auditRet.entry_number = Len(entries) + 1

\* the group values of the rows that have both a group and an outcome value
RemainingGroups ==
    {df[i][statArgs[1]] : i \in {j \in 1..Len(df) :
        df[j][statArgs[1]] # NaN /\ df[j][statArgs[2]] # NaN}}

\* C10: run_ttest (paired=False) and run_mannwhitney drop the rows with a
\* missing group or outcome value before they count the groups: the result is
\* the error-only record of the group count unless exactly 2 distinct group
\* values remain.
C10_GroupsCountedAfterDropNA ==
    (/\ statOp \in {"run_ttest", "run_mannwhitney"}
     /\ HasColumn(statArgs[1]))
        => /\ Cardinality(RemainingGroups) # 2
                => /\ DOMAIN result = {"error"}
                   /\ Len(result.error) = 2
                   /\ result.error[2] = Cardinality(RemainingGroups)
           /\ Cardinality(RemainingGroups) = 2
                => \/ "error" \notin DOMAIN result
                   \/ result.error = <<"exception">>

\* C10 case: of three groups one has no outcome value at all, and the test ran
C10_EmptyGroupNotCounted ==
    /\ statOp = "run_mannwhitney"
    /\ Cardinality({df[i].g : i \in 1..Len(df)} \ {NaN}) = 3
    /\ "error" \notin DOMAIN result
    /\ Len(result.variables.groups) = 2

\* the number of rows of group g that have both a group and an outcome value
RemainingCount(g) ==
    Cardinality({j \in 1..Len(df) :
        df[j][statArgs[1]] = g /\ df[j][statArgs[2]] # NaN})

\* C11: run_ttest with paired=True returns the error-only record whenever the
\* two groups differ in their number of rows with non-missing group and
\* outcome values, and returns the paired test only when the numbers are equal.
C11_PairedNeedsEqualCounts ==
    (/\ statOp = "run_ttest_paired"
     /\ HasColumn(statArgs[1]))
        => /\ (/\ Cardinality(RemainingGroups) = 2
               /\ \E g, h \in RemainingGroups :
                      RemainingCount(g) # RemainingCount(h))
                => result = [error |-> <<"Paired t-test requires equal sample sizes">>]
           /\ "error" \notin DOMAIN result
                => /\ result.test_type = "Paired Samples t-test"
                   /\ Cardinality(RemainingGroups) = 2
                   /\ \A g, h \in RemainingGroups :
                          RemainingCount(g) = RemainingCount(h)

\* C11 case: one group has two usable rows and the other one, and the paired
\* test was refused
C11_UnequalCountsRefused ==
    /\ statOp = "run_ttest_paired"
    /\ HasColumn(statArgs[1])
    /\ Cardinality(RemainingGroups) = 2
    /\ \E g, h \in RemainingGroups : RemainingCount(g) > RemainingCount(h)
    /\ DOMAIN result = {"error"}

\* C12: run_anova and run_kruskal return the error-only record that points to
\* the two-sample test whenever fewer than 3 distinct group values remain
\* after the rows with a missing value are dropped, and a complete record only
\* for 3 or more groups.
C12_KGroupTestsNeedThreeGroups ==
    (/\ statOp \in {"run_anova", "run_kruskal"}
     /\ HasColumn(statArgs[1]))
        => /\ Cardinality(RemainingGroups) < 3
                => result = [error |->
                        IF statOp = "run_anova"
                        THEN <<"ANOVA requires 3 or more groups. Use t-test for 2 groups.">>
                        ELSE <<"Kruskal-Wallis requires 3 or more groups. Use Mann-Whitney U for 2 groups.">>]
           /\ "error" \notin DOMAIN result
                => /\ Cardinality(RemainingGroups) >= 3
                   /\ Len(result.variables.groups) = Cardinality(RemainingGroups)

\* C12 case: the frame names three groups, one of them only in a row without
\* an outcome value, and the k-group test was refused
C12_ThirdGroupDropped ==
    /\ statOp = "run_anova"
    /\ HasColumn(statArgs[1])
    /\ Cardinality({df[i].g : i \in 1..Len(df)} \ {NaN}) = 3
    /\ Cardinality(RemainingGroups) = 2
    /\ DOMAIN result = {"error"}

\* the rows that have both a value in the first and in the second column given
RemainingRows ==
    {j \in 1..Len(df) : df[j][statArgs[1]] # NaN /\ df[j][statArgs[2]] # NaN}

RemainingValues(col) == {df[j][col] : j \in RemainingRows}

\* some cell of the contingency table of the remaining rows has an expected
\* count, row total * column total / n, below 5
SomeExpectedBelowFive ==
    \E v \in RemainingValues(statArgs[1]), w \in RemainingValues(statArgs[2]) :
        Cardinality({j \in RemainingRows : df[j][statArgs[1]] = v})
            * Cardinality({j \in RemainingRows : df[j][statArgs[2]] = w})
        < 5 * Cardinality(RemainingRows)

\* the table is 2x2 and some expected count is below 5
ExactTestDue ==
    /\ Cardinality(RemainingValues(statArgs[1])) = 2
    /\ Cardinality(RemainingValues(statArgs[2])) = 2
    /\ SomeExpectedBelowFive

\* C14: run_chisquare reports the exact test exactly when the table is 2x2
\* and some expected count is below 5, and the chi-square test otherwise; the
\* substitution changes the label, the p-value with the significance flag
\* derived from it and the odds ratio, while the statistic, Cramer's V and
\* its label are those of the chi-square statistic in both cases.
C14_ExactTestOnlyOnSmallTwoByTwo ==
    (/\ statOp = "run_chisquare"
     /\ "error" \notin DOMAIN result)
        => LET clean == DropNA(df, {statArgs[1], statArgs[2]})
               chi2 == Chi2(clean, statArgs[1], statArgs[2])
               nrows == Cardinality(RemainingValues(statArgs[1]))
               ncols == Cardinality(RemainingValues(statArgs[2]))
               v == CramersV(chi2, Cardinality(RemainingRows),
                             IF nrows < ncols THEN nrows - 1 ELSE ncols - 1)
               p == IF ExactTestDue THEN libOut.fisher_p ELSE libOut.p
           IN  /\ result.test_type =
                    IF ExactTestDue THEN "Fisher's Exact Test"
                    ELSE "Chi-square Test of Independence"
               /\ result.p_value = Round4(p)
               /\ result.significant = Less(p, Alpha)
               /\ ~ExactTestDue => result.effect_size.odds_ratio = None
               /\ result.test_statistic = Round4(chi2)
               /\ result.effect_size.cramers_v = Round4(v)
               /\ result.effect_size.interpretation
                    = InterpretEffectSize(v, "cramers_v")

\* C14 case: a 3x2 table with expected counts below 5 was given the
\* chi-square test, although an exact test on a 2x2 table would be due
C14_SmallCountsButNotTwoByTwo ==
    /\ statOp = "run_chisquare"
    /\ "error" \notin DOMAIN result
    /\ SomeExpectedBelowFive
    /\ Cardinality(RemainingValues(statArgs[1])) = 3
    /\ result.test_type = "Chi-square Test of Independence"
    /\ result.effect_size.cramers_v > 0

\* C15 as stated: for the table [[10,0],[0,10]] run_chisquare reports the
\* exact test and Cramer's V = 1.0 with the label 'large'.
C15_TenZeroZeroTenExactTest ==
    (/\ statOp = "run_chisquare"
     /\ df = TenZeroZeroTen
     /\ "error" \notin DOMAIN result)
        => /\ result.test_type = "Fisher's Exact Test"
           /\ result.effect_size.cramers_v = 100000
           /\ result.effect_size.interpretation = "large"

\* C15: for the table [[10,0],[0,10]] every expected count is exactly 5, so
\* none is below 5 and run_chisquare reports the chi-square test; with the
\* continuity correction the statistic is 16.2 and Cramer's V = 0.9, with the
\* label 'large'.
C15_TenZeroZeroTenChiSquare ==
    (/\ statOp = "run_chisquare"
     /\ df = TenZeroZeroTen
     /\ "error" \notin DOMAIN result)
        => /\ result.test_type = "Chi-square Test of Independence"
           /\ ~result.assumptions.expected_cell_counts.fisher_recommended
           /\ result.test_statistic = 1620000
           /\ result.effect_size.cramers_v = 90000
           /\ result.effect_size.interpretation = "large"
           /\ result.effect_size.odds_ratio = None

\* C15 case: run_chisquare has returned a record for the table
C15_TenZeroZeroTenReturned ==
    /\ statOp = "run_chisquare"
    /\ df = TenZeroZeroTen
    /\ "error" \notin DOMAIN result
    /\ result.sample_size = 20

\* x lies within tol of the target, all in units of 0.00001
Near(x, target, tol) == x >= target - tol /\ x <= target + tol

\* run_ttest has returned a record for the groups [1,2,3,4,5], [6,7,8,9,10]
OneToFiveSixToTenTested ==
    /\ statOp = "run_ttest"
    /\ df = OneToFiveSixToTen
    /\ "error" \notin DOMAIN result

\* C16 as stated: for the independent groups [1,2,3,4,5] and [6,7,8,9,10]
\* run_ttest reports the pooled-variance test with t about -5.0, 8 degrees of
\* freedom, significance at p < 0.01 and Cohen's d about -2.0, 'large'.
C16_WorkedTtestDMinusTwo ==
    OneToFiveSixToTenTested
        => /\ result.test_type = "Independent Samples t-test"
           /\ Near(result.test_statistic, -500000, 100)
           /\ result.degrees_of_freedom = 8
           /\ result.significant /\ Less(result.p_value, 1000)
           /\ Near(result.effect_size.cohens_d, -200000, 5000)
           /\ result.effect_size.interpretation = "large"

\* C16: for the independent groups [1,2,3,4,5] and [6,7,8,9,10] run_ttest
\* reports the pooled-variance test with t about -5.0, 8 degrees of freedom
\* and significance at p < 0.01; the pooled standard deviation is sqrt(2.5),
\* so Cohen's d is -5 / sqrt(2.5), about -3.1623, labelled 'large'.
C16_WorkedTtestDMinusThree ==
    OneToFiveSixToTenTested
        => /\ result.test_type = "Independent Samples t-test"
           /\ result.assumptions.equal_variance.equal
           /\ Near(result.test_statistic, -500000, 100)
           /\ result.degrees_of_freedom = 8
           /\ result.significant /\ Less(result.p_value, 1000)
           /\ Near(result.effect_size.cohens_d, -316230, 10)
           /\ result.effect_size.interpretation = "large"

\* C16 case: the test of the two groups has returned its record
C16_WorkedTtestReturned ==
    /\ OneToFiveSixToTenTested
    /\ result.group_statistics[1].n = 5
    /\ result.group_statistics[2].n = 5

\* C17: the independent two-sample test pools the variances exactly when
\* Levene's p-value is strictly greater than alpha and is Welch's test
\* otherwise, a p-value equal to alpha included; the record reports the
\* choice in its test label and in assumptions.equal_variance.equal, and
\* the two agree.
C17_LeveneGatesPooledOrWelch ==
    (/\ statOp = "run_ttest"
     /\ "error" \notin DOMAIN result)
        => /\ result.assumptions.equal_variance.equal
                <=> libOut.levene_p > result.alpha
           /\ result.test_type =
                IF libOut.levene_p > result.alpha
                THEN "Independent Samples t-test"
                ELSE "Independent Samples t-test (Welch's)"
           /\ result.assumptions.equal_variance.p_value
                = Round4(libOut.levene_p)

\* C17 case: Levene's p-value equals alpha and Welch's test was reported
C17_LeveneAtAlphaIsWelch ==
    /\ statOp = "run_ttest"
    /\ "error" \notin DOMAIN result
    /\ libOut.levene_p = result.alpha
    /\ result.test_type = "Independent Samples t-test (Welch's)"
    /\ ~result.assumptions.equal_variance.equal

\* the rank of a qualitative label
Tier(label) ==
    CASE label = "negligible" -> 0 [] label = "small" -> 1
      [] label = "medium" -> 2 [] label = "large" -> 3

\* the absolute value of a number
Abs(x) == IF x < 0 THEN -x ELSE x

\* the label the published thresholds (small, medium, large) give a value
LabelBy(x, small, medium, large) ==
    IF Abs(x) < small THEN "negligible"
    ELSE IF Abs(x) < medium THEN "small"
    ELSE IF Abs(x) < large THEN "medium"
    ELSE "large"

\* the call made last gave the label of the metric's thresholds
LabelledByThresholds ==
    statOp = "_interpret_effect_size" =>
        LET x == statArgs[1]
            metric == statArgs[2]
        IN  result.interpretation =
                CASE metric = "cohens_d" -> LabelBy(x, 20000, 50000, 80000)
                  [] metric = "r" -> LabelBy(x, 10000, 30000, 50000)
                  [] metric = "eta_squared" -> LabelBy(x, 1000, 6000, 14000)
                  [] metric = "cramers_v" -> LabelBy(x, 10000, 30000, 50000)
                  [] metric = "r_squared" -> LabelBy(x, 2000, 13000, 26000)

\* of two calls in a row on one metric, the one with the value of larger
\* magnitude has no lower label
MonotonicStep ==
    (/\ statOp = "_interpret_effect_size"
     /\ statArgs'[2] = statArgs[2]
     /\ Abs(statArgs[1]) <= Abs(statArgs'[1]))
        => Tier(result.interpretation) <= Tier(result'.interpretation)

\* C18: for each of the five metrics the label is decided by the metric's
\* fixed thresholds on the absolute value (Cohen's d: below 0.2 negligible,
\* below 0.5 small, below 0.8 medium, else large) and is monotonic: of two
\* values the one of larger magnitude never has the lower label.
C18_LabelsByThresholdsMonotonic ==
    []LabelledByThresholds /\ [][MonotonicStep]_vars

\* C18 case: a negative Cohen's d just below the 'large' threshold in
\* magnitude was labelled 'medium'
C18_NegativeJustBelowLarge ==
    /\ statOp = "_interpret_effect_size"
    /\ statArgs = <<-79999, "cohens_d">>
    /\ result.interpretation = "medium"

\* the four qualitative labels of an effect size
EffectLabels == {"negligible", "small", "medium", "large"}

\* C19: every record without 'error' that a test operation returns has a test
\* label, a statistic, degrees of freedom, a p-value, a boolean significance
\* flag, a variables block and an effect-size block whose interpretation is
\* one of negligible, small, medium, large.
C19_RecordHasEveryField ==
    (/\ statOp # NoCall
     /\ "error" \notin DOMAIN result)
        => /\ {"test_type", "test_statistic", "degrees_of_freedom", "p_value",
               "significant", "variables", "effect_size"} \subseteq DOMAIN result
           /\ result.significant \in BOOLEAN
           /\ result.effect_size.interpretation \in EffectLabels

\* the measurements of group g among the rows with a group and an outcome
RemainingOutcomes(g) ==
    {df[j][statArgs[2]] : j \in {i \in RemainingRows : df[i][statArgs[1]] = g}}

\* two groups of two or more rows each, every group of one value only: the
\* pooled standard deviation is 0
PooledStdZero ==
    /\ Cardinality(RemainingGroups) = 2
    /\ \A g \in RemainingGroups :
            RemainingCount(g) >= 2 /\ Cardinality(RemainingOutcomes(g)) = 1

\* three or more groups whose measurements are all one value: the total sum
\* of squares is 0
TotalSumOfSquaresZero ==
    /\ Cardinality(RemainingGroups) >= 3
    /\ Cardinality(RemainingValues(statArgs[2])) = 1

\* C20: when the effect size is undefined because of zero variance (pooled
\* standard deviation 0 for Cohen's d, total sum of squares 0 for
\* eta-squared), the operation returns the error-only record and never a
\* complete record with a default in place of the statistic.
C20_ZeroVarianceIsAnError ==
    /\ (/\ statOp \in {"run_ttest", "run_ttest_paired"}
        /\ HasColumn(statArgs[1])
        /\ PooledStdZero)
            => DOMAIN result = {"error"}
    /\ (/\ statOp = "run_anova"
        /\ HasColumn(statArgs[1])
        /\ TotalSumOfSquaresZero)
            => DOMAIN result = {"error"}

\* C30: for every p-value from 0 to 1 in steps of 0.0001, _format_p_value
\* returns '< .001' exactly when p < 0.001, and otherwise a string that read
\* back as a decimal number equals p rounded to three decimals (1 for
\* p = 1.0 and for p = 0.9996).
C30_PValueReadsBackRounded ==
    statOp = "_format_p_value" =>
        LET p == statArgs[1]
            text == result.text
        IN  /\ text = LessThan001 <=> p < 100
            /\ text # LessThan001 =>
                    /\ ParseNumber(text).ok
                    /\ ParseNumber(text).value = RoundTo(p, 3) * 100

\* a builder has rendered the record the analyzer returned last
Rendered(ops) == statOp \in ops /\ apaTable # NoTable

\* the text of a cell reads back as the number x
ReadsBackAs(text, x) == ParseNumber(text).ok /\ ParseNumber(text).value = x

\* C21: rendering a non-error record with the table builder and reading the
\* numbers back out of the rendered table gives the record's own values as
\* rounded to 4 decimals: the p-value, the effect size and the test statistic
\* (of the records whose statistic is a modelled number).
C21_TableReadsBackRecord ==
    /\ (Rendered({"run_ttest", "run_ttest_paired"}) /\ "error" \notin DOMAIN result)
        => LET row == apaTable.dataframe[1] IN
           /\ ReadsBackAs(row.p, result.p_value)
           /\ ReadsBackAs(row.cohens_d[1], result.effect_size.cohens_d)
           /\ result.test_type = "Independent Samples t-test"
                => ReadsBackAs(row.t, result.test_statistic)
    /\ (Rendered({"run_chisquare"}) /\ "error" \notin DOMAIN result)
        => LET rows == apaTable.summary.dataframe IN
           /\ ReadsBackAs(rows[1].Value, result.test_statistic)
           /\ ReadsBackAs(rows[3].Value, result.p_value)
           /\ ReadsBackAs(rows[4].Value, result.effect_size.cramers_v)
    /\ (Rendered({"run_anova"}) /\ "error" \notin DOMAIN result)
        => LET row == apaTable.main_table.dataframe[1] IN
           /\ ReadsBackAs(row.p, result.p_value)
           /\ ReadsBackAs(row.eta_squared, result.effect_size.eta_squared)
    /\ (Rendered({"run_correlation"}) /\ "error" \notin DOMAIN result)
        => LET row == apaTable.dataframe[1] IN
           /\ ReadsBackAs(row.p, result.p_value)
           /\ ReadsBackAs(row.r, result.correlation_coefficient)

\* C22: every builder that is given an error-only record hands the error on
\* unchanged and renders no table, rows or footnote from it, the Table 1
\* builder as well as the builders of the tests.
C22_ErrorRecordPassesThrough ==
    (apaTable # NoTable /\ "error" \in DOMAIN result)
        => apaTable = [error |-> result.error]

\* the number of non-missing values of the series check_normality was given
NonMissing == Len(SeriesDropNA(Column(df, statArgs[1])))

\* C23: check_normality on a series of numbers with fewer than 3 non-missing
\* values (2 in particular) returns a result without 'error' whose set of
\* test sub-results is empty.
C23_TooSmallForAnyTest ==
    (statOp = "check_normality" /\ NonMissing < 3)
        => /\ "error" \notin DOMAIN result
           /\ DOMAIN result.tests = {}

\* C23 case: check_normality has returned for a series of 2 values
C23_SeriesOfTwoChecked ==
    /\ statOp = "check_normality"
    /\ NonMissing = 2
    /\ result.sample_size = 2

\* C24: in a batch call (run_all_checks) a failure of one check gives an
\* error entry for that check only: the batch call does not raise, and every
\* check of the batch has its own entry in the result.
C24_BatchNeverRaises ==
    statOp = "run_all_checks" =>
        /\ ~raised
        /\ statArgs[3] = "regression" =>
            /\ "normality" \in DOMAIN result
            /\ Len(statArgs[2]) > 1 => "multicollinearity" \in DOMAIN result

\* C29: in every result of check_normality without 'error', conclusion.normal
\* is True exactly when a sub-test was executed and every executed sub-test
\* passed, and the recommendation is 'parametric' exactly when
\* conclusion.normal is True ('non-parametric' when no sub-test was executed).
C29_ParametricOnlyIfNormal ==
    (statOp = "check_normality" /\ "error" \notin DOMAIN result) =>
        LET executed == DOMAIN result.tests
            all_passed == \A t \in executed : result.tests[t].normal
            normal_is_true == executed # {} /\ result.conclusion.normal = TRUE
        IN  /\ executed # {} => result.conclusion.normal = all_passed
            /\ executed = {} => result.conclusion.normal = None
            /\ result.conclusion.recommendation = "parametric" <=> normal_is_true
            /\ result.conclusion.recommendation \in {"parametric", "non-parametric"}

\* the request handled by this step ended in an error response
EndsInError ==
    /\ response'.handler \in {"import_data", "clean_data", "run_analysis"}
    /\ response'.status \in {400, 404, 500}

\* C26: an import, cleaning or analysis request that ends in an error
\* response (400, 404 or 500) leaves the dataset store and every audit trail
\* as they were before the request, also when the failure occurs while the
\* response is built after the operation itself succeeded.
C26_ErrorLeavesStoreAndTrails ==
    [][EndsInError =>
        /\ datasets' = datasets
        /\ counter' = counter
        /\ audit_loggers' = audit_loggers]_vars

\* C28: after any sequence of log, undo_last and clear calls the entry at
\* position i (from 1) of the trail has entry_number i, so the entry numbers
\* are consecutive from 1 and total_entries is the entry_number of the last
\* entry.
C28_EntryNumbersConsecutive ==
    /\ \A i \in 1..Len(entries) : entries[i].entry_number = i
    /\ auditOp = "get_log" =>
        /\ auditRet.total_entries = Len(entries)
        /\ entries # <<>> =>
            auditRet.total_entries = entries[Len(entries)].entry_number

\* C28 case: get_log on a trail of three entries, the last one numbered 3
C28_ThreeEntriesListed ==
    /\ auditOp = "get_log"
    /\ Len(auditRet.entries) = 3
    /\ auditRet.entries[3].entry_number = 3

\* C27: after any sequence of store and delete calls made one at a time,
\* every store call has returned an id different from all ids returned before
\* it; an id is never used again, also after its dataset was deleted.
C27_StoreNeverReusesId ==
    [][response'.handler = "DataStorage.store"
        => response'.returned \notin DOMAIN imported]_vars

\* C27 case: store has returned an id after the dataset of the id before it
\* was deleted
C27_StoredAfterDelete ==
    /\ response.handler = "DataStorage.store"
    /\ response.returned - 1 \in DOMAIN imported
    /\ response.returned - 1 \notin DOMAIN datasets

\* both clean requests have written the store
BothWritten == \A r \in Requests : cleaning # <<>> /\ cleaning[r].pc = "done"

\* the actions of the audit entries of the shared dataset, after 'import'
LoggedActions ==
    [i \in 1..(Len(audit_loggers[Shared]) - 1) |->
        audit_loggers[Shared][i + 1].action]

\* request r worked on the data as imported, and the store holds its result,
\* on which the operation of the other request q would still change something
LostUpdateOf(q, r) ==
    /\ cleaning[r].df = imported[Shared]
    /\ Get(datasets, Shared) = cleaning[r].data
    /\ Transform(Get(datasets, Shared), cleaning[q].operation,
                 cleaning[q].column, cleaning[q].method) # Get(datasets, Shared)
    /\ cleaning[q].data # cleaning[q].df

\* C25: the store has no lock, so when two clean requests on one dataset
\* interleave, both audit entries are always written and the stored data is
\* what one of the two requests computed from the frame it had read; a lost
\* update is reachable, where the trail records both transformations and the
\* stored data reflects only one of them.
C25_TrailOfBothDataOfOne ==
    BothWritten =>
        /\ Len(LoggedActions) = 2
        /\ \E r \in Requests :
                LoggedActions \in {<<cleaning[r].operation, cleaning[q].operation>> :
                                        q \in Requests \ {r}}
        /\ \E r \in Requests : Get(datasets, Shared) = cleaning[r].data

\* C25 case: the lost update
C25_LostUpdate ==
    /\ BothWritten
    /\ Len(LoggedActions) = 2
    /\ \E r \in Requests : \E q \in Requests \ {r} : LostUpdateOf(q, r)

====
